---- MODULE Spec2Model ----
(***************************************************************************)
(* Model of the authenticated-request core of mitra-platform-sdk:          *)
(*   - AuthModule (the Session Store): signIn, signUp, signOut,            *)
(*     refreshSession / doRefresh, me, setToken, storage mirroring;        *)
(*   - HttpClient.request (the Request Executor) with its single           *)
(*     401-triggered retry through the onUnauthorized callback, wired by   *)
(*     createClient to AuthModule.refreshSession.                          *)
(*                                                                         *)
(* JavaScript runs the code of one task without interruption between two   *)
(* awaits, so every action below is the code between two suspension        *)
(* points of one asynchronous call chain ("task").                         *)
(***************************************************************************)
EXTENDS Integers, Sequences, FiniteSets, TLC

\* ------------------------------------------------------------------ bounds
MaxOps == 3         \* public operations called in one behaviour

\* The asynchronous call chains that may be suspended at the same time.
Tasks == {1, 2}

\* ------------------------------------------------------------------ values
Null == "null"
Undefined == "undefined"

\* !x for a value that is null, undefined or a non-empty string or object
falsy(x) == x \in {Null, Undefined}
Users == {"u1", "u2"}
AccessTokens == {"t1", "t2"}
Credentials == {"alice", "bob"}

\* AuthTokenResponse bodies the server may answer with (auth.types.ts)
AuthTokenResponse == {[accessToken |-> "t1", refreshToken |-> "r1"],
                      [accessToken |-> "t2", refreshToken |-> "r2"]}
NoTokenResponse == [accessToken |-> Null, refreshToken |-> Null]

\* HTTP statuses a call may end with; NetworkFailure stands for fetch()
\* rejecting (network-level failure: there is no response and no status),
\* NoStatus for a step that received no response at all.
NetworkFailure == 0
NoStatus == -1
AuthStatuses == {200, 401, 500, NetworkFailure}
DataStatuses == {200, 204, 401, 500, NetworkFailure}

\* endpoints
TokensPath == "/api/v1/auth/tokens"
RefreshPath == "/api/v1/auth/tokens/refresh"
MePath == "/api/v1/auth/me"
RegisterPath == "/api/v1/auth/users/register"
DataPath == "/data"
InfoPath == "/api/v1/apps/{appId}/info"

\* AppInfoResponse bodies (dataSourceId, allowSignup) the server may answer
AppInfos == {"a1", "a2"}

\* the body of a successful response to request()
DataPayload == "d1"

\* the application identifier createClient is given
AppId == "app1"

\* inputs of request() on the client created by createClient
RequestInputs == {[path |-> DataPath, method |-> "POST", body |-> "b1"]}

VARIABLES
    currentUser,    \* AuthModule._currentUser
    accessToken,    \* AuthModule._accessToken
    refreshToken,   \* AuthModule._refreshToken
    refreshPromise, \* AuthModule.refreshPromise: the pending-refresh marker
    storage,        \* localStorage[storageKey]
    storageMode,    \* how localStorage behaves in this environment
    task,           \* per task: the frame of the operation it is running
    settled,        \* the operation that settled in the step just taken
    answeredEarly,  \* a refreshSession() call made while the refresh now
                    \* pending was pending has already resolved (to false)
    listeners,      \* AuthModule.listeners, in insertion order
    notified,       \* the listener invocations of the step just taken
    initialized,    \* createClient: let initialized
    appInfo,        \* createClient: what init() stored of the app info
    exchange,       \* one request() seen by itself: what it handed to
                    \* fetch(), or what it raised for the response
    opsStarted      \* public operations called so far

vars == <<currentUser, accessToken, refreshToken, refreshPromise, storage,
          storageMode, task, settled, answeredEarly, listeners, notified,
          initialized, appInfo, exchange, opsStarted>>

\* the state of createClient's closure and of the listener registry, and
\* the request() looked at by itself, which the Session operations below
\* leave alone
others == <<listeners, initialized, appInfo, exchange>>

\* ------------------------------------------------------- durable storage
\* The text kept under storageKey, by what JSON.parse makes of it.
NoItem == [kind |-> "absent", user |-> Undefined, token |-> Undefined,
           refreshToken |-> Undefined]

\* JSON.stringify({user, token, refreshToken}) (integration.ts 391-395)
JSONstringify(user, token, rt) ==
    [kind |-> "json", user |-> user, token |-> token, refreshToken |-> rt]

\* The environments the try/catch blocks of lines 385-426 provide for:
\*   "ok"        localStorage works;
\*   "disabled"  localStorage is undefined or every access throws.
StorageModes == {"ok", "disabled"}

\* Faulty variant, for mutation checks: the record is written without the refresh token
saveToStorageOmitsRefreshToken ==
    storage' = IF storageMode = "ok"
               THEN JSONstringify(currentUser', accessToken', Null)
               ELSE storage

\* saveToStorage(): writes the fields as they are after the assignments of
\* the calling handler; a failing setItem is swallowed.
saveToStorage ==
    storage' = IF storageMode = "ok"
               THEN JSONstringify(currentUser', accessToken', refreshToken')
               ELSE storage

\* removeFromStorage(): a failing removeItem is swallowed.
removeFromStorage ==
    storage' = IF storageMode # "disabled" THEN NoItem ELSE storage

\* A text JSON.parse throws on, or parses to null (destructuring it throws).
Unparsable == [kind |-> "unparsable", user |-> Undefined, token |-> Undefined,
               refreshToken |-> Undefined]

\* "{}": a text that parses to an object with none of the three keys
EmptyObject == JSONstringify(Undefined, Undefined, Undefined)

\* texts that are no record saveToStorage() writes
CorruptItems == {Unparsable, EmptyObject}

\* loadFromStorage() ends in its catch, which removes the item (line 414)
parseThrows(item) == item.kind = "unparsable"

\* Faulty variant, for mutation checks: the refresh token is not restored
loadFromStorageWithoutRefreshToken(item) ==
    IF item.kind = "json"
    THEN [user |-> item.user, token |-> item.token, refreshToken |-> Null]
    ELSE [user |-> Null, token |-> Null, refreshToken |-> Null]

\* loadFromStorage(): the Session the constructor seeds from an item.
loadFromStorage(item) ==
    IF item.kind = "json"
    THEN [user |-> item.user, token |-> item.token,
          refreshToken |-> IF item.refreshToken = Undefined THEN Null
                           ELSE item.refreshToken]
    ELSE [user |-> Null, token |-> Null, refreshToken |-> Null]

\* Faulty variant, for mutation checks: another prefix
storageKeyWithSessionPrefix(appId) == "session_" \o appId

\* this.storageKey, line 100
storageKey(appId) == "mitra_auth_" \o appId

\* localStorage as this AuthModule sees and leaves it: getItem, setItem and
\* removeItem (lines 390, 406, 422) are all called with this.storageKey, so
\* the variable storage is the item under that key and no other key is
\* read or written.
StorageKeys == {"session_" \o AppId, "mitra_auth_" \o AppId, "mitra_auth_app2"}
localStorage == [k \in StorageKeys |->
                    IF k = storageKey(AppId) THEN storage ELSE NoItem]

\* Items a previous page life of this code may have left behind.
InitialItems == {NoItem,
                 JSONstringify("u1", "t1", "r1"),
                 JSONstringify("u1", "t1", Null)}

\* ------------------------------------------------------------ AuthModule
isAuthenticated == currentUser # Null /\ accessToken # Null

\* callbacks an application may register; the one in Throwing raises
\* whenever it is invoked
ListenerIds == {"l1", "l2"}
Throwing == {"l2"}

\* one invocation of a listener: callback(user)
invoked(l, user) == [listener |-> l, user |-> user]

\* notifyListeners(): every registered callback, in insertion order, with
\* the user as it is after the assignments of the calling handler; what a
\* callback raises is caught and logged, and the loop goes on
notifyListeners ==
    notified' = [i \in 1..Len(listeners) |-> invoked(listeners[i], currentUser')]

\* a step that calls no listener
quiet == notified' = <<>>

\* Faulty variant, for mutation checks: what a failing setItem raises is
\* not caught, so the listeners are not reached
setAuthStateSaveUncaught(user, token, rt) ==
    /\ currentUser' = user
    /\ accessToken' = token
    /\ refreshToken' = rt
    /\ saveToStorage
    /\ IF storageMode = "ok" THEN notifyListeners ELSE quiet

setAuthState(user, token, rt) ==
    /\ currentUser' = user
    /\ accessToken' = token
    /\ refreshToken' = rt
    /\ saveToStorage
    /\ notifyListeners

\* Faulty variant, for mutation checks: the clear leaves the user record in place
clearAuthStateKeepsUser ==
    /\ currentUser' = currentUser
    /\ accessToken' = Null
    /\ refreshToken' = Null
    /\ removeFromStorage
    /\ notifyListeners

clearAuthState ==
    /\ currentUser' = Null
    /\ accessToken' = Null
    /\ refreshToken' = Null
    /\ removeFromStorage
    /\ notifyListeners

\* the marker: the task that runs the doRefresh() behind the promise, and
\* the promise's state
NoPromise == [owner |-> 0, val |-> "none"]
NotAwaiting == [on |-> 0, val |-> "none"]

\* ------------------------------------------------------------ HttpClient
\* the HttpClient instances: AuthModule.publicClient, AuthModule.authedClient,
\* the client createClient builds for the modules ("httpClient") and the one
\* init() builds for the app-info call ("initClient")
\* Faulty variant, for mutation checks: every client is built with the callback
hasOnUnauthorizedEverywhere(client) ==
    client \in {"httpClient", "publicClient", "authedClient", "initClient"}

hasOnUnauthorized(client) == client = "httpClient"

tokenGetter(client, heldToken) ==
    IF client \in {"publicClient", "initClient"} THEN Null ELSE heldToken

\* createClient hands config.onError to the clients it builds for the
\* modules; AuthModule builds its two clients without one
hasOnError(client) == client = "httpClient"

\* invocations of the onError hook when request() ends this way (line 444)
onErrorCalls(client, outcome) ==
    IF outcome = "api_error" /\ hasOnError(client) THEN 1 ELSE 0

\* the fetch() call request() issues: the token is read when the call is made
fetchCall(client, path, method, body, heldToken) ==
    [client |-> client, path |-> path, method |-> method, body |-> body,
     authorization |-> IF tokenGetter(client, heldToken) # Null
                       THEN tokenGetter(client, heldToken) ELSE Undefined]

responseOk(status) == status >= 200 /\ status <= 299

\* Faulty variant, for mutation checks: the retry flag is not consulted
responseOutcomeIgnoresRetryFlag(client, isRetry, status) ==
    IF status = NetworkFailure THEN "rejects"
    ELSE IF ~responseOk(status)
         THEN IF status = 401 /\ hasOnUnauthorized(client)
              THEN "unauthorized"
              ELSE "api_error"
         ELSE IF status = 204 THEN "no_content" ELSE "json"

\* Faulty variant, for mutation checks: a rejecting fetch() is handled like
\* a response that is not ok
responseOutcomeWrapsNetworkFailure(client, isRetry, status) ==
    IF ~responseOk(status)
    THEN IF status = 401 /\ ~isRetry /\ hasOnUnauthorized(client)
         THEN "unauthorized"
         ELSE "api_error"
    ELSE IF status = 204 THEN "no_content" ELSE "json"

\* what request() does with the settled fetch()
responseOutcome(client, isRetry, status) ==
    IF status = NetworkFailure THEN "rejects"
    ELSE IF ~responseOk(status)
         THEN IF status = 401 /\ ~isRetry /\ hasOnUnauthorized(client)
              THEN "unauthorized"
              ELSE "api_error"
         ELSE IF status = 204 THEN "no_content" ELSE "json"

\* how a promise settles: resolved with a value, rejected with a
\* MitraApiError(status), or rejected with the error fetch() raised
NoResult == [kind |-> "pending", status |-> NoStatus, value |-> Undefined]
Resolved(v) == [kind |-> "resolved", status |-> NoStatus, value |-> v]
MitraApiError(status) == [kind |-> "MitraApiError", status |-> status, value |-> Undefined]
NetworkError == [kind |-> "NetworkError", status |-> NoStatus, value |-> Undefined]

\* how request() settles when it does not go to the callback
requestSettles(outcome, status, payload) ==
    CASE outcome = "rejects" -> NetworkError
      [] outcome = "api_error" -> MitraApiError(status)
      [] outcome = "no_content" -> Resolved(Undefined)
      [] OTHER -> Resolved(payload)

\* the locals of one request() call on the client of createClient;
\* unauthorized counts the invocations of the onUnauthorized callback
NoRequest == [path |-> Undefined, method |-> Undefined, body |-> Undefined,
              isRetry |-> FALSE, refreshed |-> "none", unauthorized |-> 0]

\* ------------------------------- HttpClient.request: address and headers
\* Texts whose characters matter (addresses, query strings) are sequences
\* of one-character strings.
\* the characters URLSearchParams.toString() percent-encodes, with their
\* codes; a space becomes "+", letters and digits stay
PercentCode == [c \in {"&", "=", "+", ",", "?", "%"} |->
                  CASE c = "&" -> <<"%", "2", "6">>
                    [] c = "=" -> <<"%", "3", "D">>
                    [] c = "+" -> <<"%", "2", "B">>
                    [] c = "," -> <<"%", "2", "C">>
                    [] c = "?" -> <<"%", "3", "F">>
                    [] OTHER -> <<"%", "2", "5">>]

\* Faulty variant, for mutation checks: the text is appended as it is
urlencodeVerbatim(text) == text

\* the application/x-www-form-urlencoded form of a text
RECURSIVE urlencode(_)
urlencode(text) ==
    IF text = <<>> THEN <<>>
    ELSE (IF Head(text) = " " THEN <<"+">>
          ELSE IF Head(text) \in DOMAIN PercentCode THEN PercentCode[Head(text)]
          ELSE <<Head(text)>>) \o urlencode(Tail(text))

\* the values a params object may hold
UndefinedValue == [type |-> "undefined"]
StringValue(text) == [type |-> "string", text |-> text]
NumberValue(n) == [type |-> "number", n |-> n]
BooleanValue(b) == [type |-> "boolean", b |-> b]

\* String(n) for a number that is a natural
RECURSIVE decimal(_)
decimal(n) ==
    LET digit == <<"0", "1", "2", "3", "4", "5", "6", "7", "8", "9">>[(n % 10) + 1]
    IN IF n < 10 THEN <<digit>> ELSE decimal(n \div 10) \o <<digit>>

\* String(value), line 403
String(value) ==
    CASE value.type = "string" -> value.text
      [] value.type = "number" -> decimal(value.n)
      [] value.type = "boolean" ->
            IF value.b THEN <<"t", "r", "u", "e">> ELSE <<"f", "a", "l", "s", "e">>

\* lines 401-405: the entries of the params object that are appended
appended(entries) == SelectSeq(entries, LAMBDA e : e.value # UndefinedValue)

\* URLSearchParams.toString(): key=value pairs joined by "&"
RECURSIVE serialized(_)
serialized(entries) ==
    IF entries = <<>> THEN <<>>
    ELSE urlencode(Head(entries).key) \o <<"=">>
            \o urlencode(String(Head(entries).value))
            \o (IF Tail(entries) = <<>> THEN <<>>
                ELSE <<"&">> \o serialized(Tail(entries)))

\* the params argument of request(): not given, or an object whose entries
\* come in insertion order
NoParams == [given |-> FALSE, entries |-> <<>>]
ParamsObject(entries) == [given |-> TRUE, entries |-> entries]

\* lines 399-410: the address fetch() is called with
requestUrl(baseUrl, path, params) ==
    LET queryString == serialized(appended(params.entries)) IN
    IF params.given /\ queryString # <<>>
    THEN baseUrl \o path \o <<"?">> \o queryString
    ELSE baseUrl \o path

\* header objects: what each header name is set to, Absent for a name that
\* is no key of the object
Absent == "absent"
HeaderNames == {"Content-Type", "X-App-Id", "Authorization"}
NoHeaders == [n \in HeaderNames |-> Absent]

\* { ...a, ...b }
spread(a, b) == [n \in HeaderNames |-> IF b[n] # Absent THEN b[n] ELSE a[n]]

\* config.defaultHeaders of each client (part_002 lines 228 and 367;
\* AuthModule and init() pass none)
defaultHeaders(client) ==
    IF client = "httpClient" THEN [NoHeaders EXCEPT !["X-App-Id"] = AppId]
    ELSE NoHeaders

\* Faulty variant, for mutation checks: the caller's headers are spread last
requestHeadersCallerLast(defaults, headers, token) ==
    LET computed == IF falsy(token) THEN NoHeaders
                    ELSE [NoHeaders EXCEPT !["Authorization"] = "Bearer " \o token]
    IN spread(spread(spread([NoHeaders EXCEPT !["Content-Type"] = "application/json"],
                            defaults), computed), headers)

\* lines 412-421: the headers fetch() is called with
requestHeaders(defaults, headers, token) ==
    LET merged == spread(spread([NoHeaders EXCEPT
                                    !["Content-Type"] = "application/json"],
                                defaults), headers)
    IN IF falsy(token) THEN merged
       ELSE [merged EXCEPT !["Authorization"] = "Bearer " \o token]

\* ------------------------------------ HttpClient.request: the error raised
\* response bodies of an error response, by what response.json() makes of
\* them: rejects (no JSON), an object with or without the message and
\* error_code keys, or a JSON value that is no object
UnparseableBody == [kind |-> "unparseable", message |-> Undefined,
                    error_code |-> Undefined]
ObjectBody(message, code) == [kind |-> "object", message |-> message,
                              error_code |-> code]
NullBody == [kind |-> "null", message |-> Undefined, error_code |-> Undefined]
NumberBody == [kind |-> "number", message |-> Undefined, error_code |-> Undefined]

\* await response.json().catch(() => ({})), line 437
errorBody(body) ==
    IF body.kind = "unparseable" THEN ObjectBody(Undefined, Undefined) ELSE body

\* what request() raises and whether it has called the onError hook with it
NothingRaised == [name |-> "none", status |-> NoStatus, message |-> Undefined,
                  code |-> Undefined, details |-> Undefined, hooked |-> FALSE]
TypeError == [NothingRaised EXCEPT !.name = "TypeError"]

\* lines 437-445: reading a property of null throws (line 439) before the
\* error is built and before the hook is called
raisedFor(client, status, body) ==
    LET parsed == errorBody(body) IN
    IF parsed.kind = "null" THEN TypeError
    ELSE [name |-> "MitraApiError", status |-> status,
          message |-> IF falsy(parsed.message)
                      THEN "Request failed with status " \o ToString(status)
                      ELSE parsed.message,
          code |-> parsed.error_code, details |-> parsed,
          hooked |-> hasOnError(client)]

\* one request() by itself: its inputs, and what it handed to fetch()
\* (kind "prepared") or raised for the response (kind "failed")
NoExchange == [kind |-> "none", client |-> Undefined, token |-> Undefined,
               perCall |-> NoHeaders, params |-> NoParams, isRetry |-> FALSE,
               refreshed |-> "none", status |-> NoStatus,
               body |-> UnparseableBody, url |-> <<>>, headers |-> NoHeaders,
               raised |-> NothingRaised]

\* --------------------------------------------------------------- frames
\* The frame of the operation a task runs: the await it is suspended at (pc),
\* the public operation (op), its locals, and the fetch() calls it issued.
\* wrote records whether the operation has changed the Session or the
\* durable record so far, hooked the invocations of the onError hook by the
\* request() calls of the operation, signedOut whether signOut() has run
\* while the operation was suspended.
Idle == [pc |-> "idle", op |-> "none", credentials |-> Undefined,
         tokenResponse |-> NoTokenResponse, awaited |-> NotAwaiting,
         request |-> NoRequest, calls |-> <<>>, wrote |-> FALSE, hooked |-> 0,
         signedOut |-> FALSE]

\* request() of this client ends with this outcome in frame f: lines 436-445
\* call the onError hook before the error is thrown
raised(f, client, outcome) ==
    [f EXCEPT !.hooked = @ + onErrorCalls(client, outcome)]

\* the step being taken changes the Session or the durable record
touched ==
    <<currentUser', accessToken', refreshToken', storage'>>
        # <<currentUser, accessToken, refreshToken, storage>>

\* the calls of a frame that request() of the createClient client issued
sentBy(f) == SelectSeq(f.calls, LAMBDA c : c.client = "httpClient")

\* What a caller observes when its operation settles: the operation, the
\* locals of its request() call, the endpoints it called in order, the
\* status and body of the response its last step received, and how it
\* settled. op "doRefresh" is the promise of doRefresh() resolving; persist
\* is the second argument of setToken().
eventRecord(t, kind, f, status, payload, wrote, r) ==
    [task |-> t, op |-> kind, request |-> f.request,
     paths |-> [i \in 1..Len(f.calls) |-> f.calls[i].path],
     sent |-> sentBy(f), tokenResponse |-> f.tokenResponse,
     status |-> status, payload |-> payload, wrote |-> wrote,
     hooked |-> f.hooked, signedOut |-> f.signedOut, persist |-> FALSE,
     result |-> r]

NoEvent == eventRecord(0, "none", Idle, NoStatus, Undefined, FALSE, NoResult)

event(t, kind, f, status, payload, r) ==
    eventRecord(t, kind, f, status, payload, f.wrote \/ touched, r)

\* ------------------------------------------------------------------ Init
Init ==
    /\ storageMode \in StorageModes
    /\ \E item \in IF storageMode = "disabled" THEN {NoItem} ELSE InitialItems :
          /\ storage = item
          /\ currentUser = loadFromStorage(item).user
          /\ accessToken = loadFromStorage(item).token
          /\ refreshToken = loadFromStorage(item).refreshToken
    /\ refreshPromise = NoPromise
    /\ task = [t \in Tasks |-> Idle]
    /\ settled = NoEvent
    /\ answeredEarly = FALSE
    /\ listeners = <<>>
    /\ notified = <<>>
    /\ initialized = FALSE
    /\ appInfo = Null
    /\ exchange = NoExchange
    /\ opsStarted = 0

\* a public operation is called
called ==
    /\ opsStarted < MaxOps
    /\ opsStarted' = opsStarted + 1

\* An asynchronous operation is called: it runs in the first free task (tasks
\* are interchangeable, so this leaves out no behaviour up to renaming them).
begin(t) ==
    /\ task[t].pc = "idle"
    /\ \A u \in Tasks : u < t => task[u].pc # "idle"
    /\ called

\* task t goes on to its next await with frame f
suspend(t, f) ==
    /\ task' = [task EXCEPT ![t] = [f EXCEPT !.wrote = @ \/ touched]]
    /\ settled' = NoEvent

\* the operation of task t, whose frame is f, settles with r in the step
\* that received a response with this status and body (NoStatus: none)
settle(t, f, status, payload, r) ==
    /\ task' = [task EXCEPT ![t] = Idle]
    /\ settled' = event(t, f.op, f, status, payload, r)

\* ------------------------------------------------------- signIn / signUp
\* signIn up to its first await: publicClient.post('/api/v1/auth/tokens')
signIn(t, f, credentials) ==
    suspend(t, [f EXCEPT !.pc = "signIn_token",
                         !.credentials = credentials,
                         !.calls = Append(@, fetchCall("publicClient", TokensPath,
                                                       "POST", credentials,
                                                       accessToken))])

SignIn(t, credentials) ==
    /\ begin(t)
    /\ UNCHANGED <<currentUser, accessToken, refreshToken, refreshPromise,
                   storage, storageMode, answeredEarly>>
    /\ signIn(t, [Idle EXCEPT !.op = "signIn"], credentials)
    /\ quiet
    /\ UNCHANGED others

\* the token call settles: lines 145-148
SignInToken(t, status, tr) ==
    /\ task[t].pc = "signIn_token"
    /\ UNCHANGED <<currentUser, refreshPromise, storage, storageMode,
                   answeredEarly, opsStarted>>
    /\ LET outcome == responseOutcome("publicClient", FALSE, status) IN
       IF outcome = "json"
       THEN /\ accessToken' = tr.accessToken
            /\ refreshToken' = tr.refreshToken
            /\ suspend(t, [task[t] EXCEPT
                     !.pc = "signIn_me",
                     !.tokenResponse = tr,
                     !.calls = Append(@, fetchCall("authedClient", MePath, "GET",
                                                   Undefined, tr.accessToken))])
       ELSE /\ UNCHANGED <<accessToken, refreshToken>>
            /\ settle(t, raised(task[t], "publicClient", outcome), status,
                      Undefined, requestSettles(outcome, status, Undefined))
    /\ quiet
    /\ UNCHANGED others

\* Faulty variant, for mutation checks: the commit takes the tokens from the
\* fields instead of the token response it holds
SignInMeCommitsHeldTokens(t, status, user) ==
    /\ task[t].pc = "signIn_me"
    /\ UNCHANGED <<refreshPromise, storageMode, answeredEarly, opsStarted>>
    /\ LET outcome == responseOutcome("authedClient", FALSE, status) IN
       IF outcome = "json"
       THEN /\ setAuthState(user, accessToken, refreshToken)
            /\ settle(t, task[t], status, user, Resolved(user))
       ELSE /\ UNCHANGED <<currentUser, accessToken, refreshToken, storage>>
            /\ quiet
            /\ settle(t, raised(task[t], "authedClient", outcome), status,
                      Undefined, requestSettles(outcome, status, Undefined))
    /\ UNCHANGED others

\* the current-user call settles: lines 148-151
SignInMe(t, status, user) ==
    /\ task[t].pc = "signIn_me"
    /\ UNCHANGED <<refreshPromise, storageMode, answeredEarly, opsStarted>>
    /\ LET outcome == responseOutcome("authedClient", FALSE, status) IN
       IF outcome = "json"
       THEN /\ setAuthState(user, task[t].tokenResponse.accessToken,
                            task[t].tokenResponse.refreshToken)
            /\ settle(t, task[t], status, user, Resolved(user))
       ELSE /\ UNCHANGED <<currentUser, accessToken, refreshToken, storage>>
            /\ quiet
            /\ settle(t, raised(task[t], "authedClient", outcome), status,
                      Undefined, requestSettles(outcome, status, Undefined))
    /\ UNCHANGED others

SignUp(t, data) ==
    /\ begin(t)
    /\ UNCHANGED <<currentUser, accessToken, refreshToken, refreshPromise,
                   storage, storageMode, answeredEarly>>
    /\ suspend(t, [Idle EXCEPT
             !.pc = "signUp_register",
             !.op = "signUp",
             !.credentials = data,
             !.calls = <<fetchCall("publicClient", RegisterPath, "POST", data,
                                   accessToken)>>])
    /\ quiet
    /\ UNCHANGED others

\* the register call settles: line 176 goes on into signIn
SignUpRegister(t, status) ==
    /\ task[t].pc = "signUp_register"
    /\ UNCHANGED <<currentUser, accessToken, refreshToken, refreshPromise,
                   storage, storageMode, answeredEarly, opsStarted>>
    /\ LET outcome == responseOutcome("publicClient", FALSE, status) IN
       IF outcome = "json"
       THEN signIn(t, task[t], task[t].credentials)
       ELSE settle(t, raised(task[t], "publicClient", outcome), status,
                   Undefined, requestSettles(outcome, status, Undefined))
    /\ quiet
    /\ UNCHANGED others

\* ---------------------------------------------------- signOut / setToken
\* signOut and setToken are synchronous: they return in the step that calls
\* them, whatever the tasks are suspended at (event task 0: no task).
SignOut ==
    /\ called
    /\ clearAuthState
    /\ settled' = event(0, "signOut", Idle, NoStatus, Undefined,
                        Resolved(Undefined))
    /\ task' = [t \in Tasks |-> IF task[t].pc = "idle" THEN task[t]
                                 ELSE [task[t] EXCEPT !.signedOut = TRUE]]
    /\ UNCHANGED <<refreshPromise, storageMode, answeredEarly>>
    /\ UNCHANGED others

\* Faulty variant, for mutation checks: the second argument is ignored
SetTokenAlwaysPersists(token, persist) ==
    /\ called
    /\ accessToken' = token
    /\ UNCHANGED <<currentUser, refreshToken>>
    /\ saveToStorage
    /\ settled' = [event(0, "setToken", Idle, NoStatus, token,
                         Resolved(Undefined)) EXCEPT !.persist = persist]
    /\ UNCHANGED <<refreshPromise, storageMode, task, answeredEarly>>
    /\ quiet
    /\ UNCHANGED others

SetToken(token, persist) ==
    /\ called
    /\ accessToken' = token
    /\ UNCHANGED <<currentUser, refreshToken>>
    /\ IF persist THEN saveToStorage ELSE UNCHANGED storage
    /\ settled' = [event(0, "setToken", Idle, NoStatus, token,
                         Resolved(Undefined)) EXCEPT !.persist = persist]
    /\ UNCHANGED <<refreshPromise, storageMode, task, answeredEarly>>
    /\ quiet
    /\ UNCHANGED others

\* --------------------------------------------------------------------- me
\* Faulty variant, for mutation checks: me() without the check of line 241
MeWithoutTokenCheck(t) ==
    /\ begin(t)
    /\ UNCHANGED <<currentUser, accessToken, refreshToken, refreshPromise,
                   storage, storageMode, answeredEarly>>
    /\ suspend(t, [Idle EXCEPT
             !.pc = "me_fetch",
             !.op = "me",
             !.calls = <<fetchCall("authedClient", MePath, "GET", Undefined,
                                   accessToken)>>])
    /\ quiet
    /\ UNCHANGED others

\* me() up to its first await: lines 240-244
Me(t) ==
    /\ begin(t)
    /\ UNCHANGED <<currentUser, accessToken, refreshToken, refreshPromise,
                   storage, storageMode, answeredEarly>>
    /\ IF falsy(accessToken)
       THEN settle(t, [Idle EXCEPT !.op = "me"], NoStatus, Undefined,
                   Resolved(Null))
       ELSE suspend(t, [Idle EXCEPT
                  !.pc = "me_fetch",
                  !.op = "me",
                  !.calls = <<fetchCall("authedClient", MePath, "GET", Undefined,
                                        accessToken)>>])
    /\ quiet
    /\ UNCHANGED others

\* Faulty variant, for mutation checks: me() clears the Session on every failure
MeFetchClearsOnAnyError(t, status, user) ==
    /\ task[t].pc = "me_fetch"
    /\ UNCHANGED <<refreshPromise, storageMode, answeredEarly, opsStarted>>
    /\ LET outcome == responseOutcome("authedClient", FALSE, status) IN
       IF outcome = "json"
       THEN /\ currentUser' = user
            /\ UNCHANGED <<accessToken, refreshToken>>
            /\ saveToStorage
            /\ notifyListeners
            /\ settle(t, task[t], status, user, Resolved(user))
       ELSE /\ clearAuthState
            /\ settle(t, raised(task[t], "authedClient", outcome), status,
                      Undefined, Resolved(Null))
    /\ UNCHANGED others

\* the current-user call of me() settles: lines 244-255
\* Faulty variant, for mutation checks: me() stores the user without
\* calling the listeners
MeFetchWithoutNotify(t, status, user) ==
    /\ task[t].pc = "me_fetch"
    /\ UNCHANGED <<refreshPromise, storageMode, answeredEarly, opsStarted>>
    /\ LET outcome == responseOutcome("authedClient", FALSE, status) IN
       IF outcome = "json"
       THEN /\ currentUser' = user
            /\ UNCHANGED <<accessToken, refreshToken>>
            /\ saveToStorage
            /\ quiet
            /\ settle(t, task[t], status, user, Resolved(user))
       ELSE /\ IF outcome = "api_error" /\ status = 401
               THEN clearAuthState
               ELSE /\ UNCHANGED <<currentUser, accessToken, refreshToken,
                                   storage>>
                    /\ quiet
            /\ settle(t, raised(task[t], "authedClient", outcome), status,
                      Undefined, Resolved(Null))
    /\ UNCHANGED others

MeFetch(t, status, user) ==
    /\ task[t].pc = "me_fetch"
    /\ UNCHANGED <<refreshPromise, storageMode, answeredEarly, opsStarted>>
    /\ LET outcome == responseOutcome("authedClient", FALSE, status) IN
       IF outcome = "json"
       THEN /\ currentUser' = user
            /\ UNCHANGED <<accessToken, refreshToken>>
            /\ saveToStorage
            /\ notifyListeners
            /\ settle(t, task[t], status, user, Resolved(user))
       ELSE /\ IF outcome = "api_error" /\ status = 401
               THEN clearAuthState
               ELSE /\ UNCHANGED <<currentUser, accessToken, refreshToken,
                                   storage>>
                    /\ quiet
            /\ settle(t, raised(task[t], "authedClient", outcome), status,
                      Undefined, Resolved(Null))
    /\ UNCHANGED others

\* --------------------------------------------- refreshSession / doRefresh
\* Faulty variant, for mutation checks: refreshSession() without the check of line 214
refreshSessionWithoutTokenCheck(t, f) ==
    IF refreshPromise # NoPromise
    THEN /\ suspend(t, [f EXCEPT
                  !.pc = IF f.op = "request" THEN "request_unauthorized"
                         ELSE "refresh_join",
                  !.awaited = [on |-> refreshPromise.owner,
                               val |-> refreshPromise.val]])
         /\ UNCHANGED <<refreshPromise, answeredEarly>>
    ELSE /\ refreshPromise' = [owner |-> t, val |-> "pending"]
         /\ answeredEarly' = FALSE
         /\ suspend(t, [f EXCEPT
                  !.pc = "refresh_token",
                  !.awaited = [on |-> t, val |-> "pending"],
                  !.calls = Append(@, fetchCall("publicClient", RefreshPath,
                                                "POST", refreshToken,
                                                accessToken))])

\* refreshSession() up to its first await, called in frame f: directly
\* (f.op = "refreshSession") or as the onUnauthorized callback of request()
\* (f.op = "request"; createClient: onUnauthorized = refreshSession).
\* doRefresh() runs, up to its own first await, inside this call.
refreshSession(t, f) ==
    IF falsy(refreshToken)
    THEN \* line 214: return false
         /\ IF f.op = "request"
            THEN suspend(t, [f EXCEPT !.pc = "request_unauthorized",
                                      !.awaited = [on |-> 0, val |-> "false"]])
            ELSE settle(t, f, NoStatus, Undefined, Resolved("false"))
         /\ answeredEarly' = (answeredEarly \/ refreshPromise.val = "pending")
         /\ UNCHANGED refreshPromise
    ELSE IF refreshPromise # NoPromise
    THEN \* line 216: return this.refreshPromise
         /\ suspend(t, [f EXCEPT
                  !.pc = IF f.op = "request" THEN "request_unauthorized"
                         ELSE "refresh_join",
                  !.awaited = [on |-> refreshPromise.owner,
                               val |-> refreshPromise.val]])
         /\ UNCHANGED <<refreshPromise, answeredEarly>>
    ELSE \* line 218: this.refreshPromise = this.doRefresh()
         /\ refreshPromise' = [owner |-> t, val |-> "pending"]
         /\ answeredEarly' = FALSE
         /\ suspend(t, [f EXCEPT
                  !.pc = "refresh_token",
                  !.awaited = [on |-> t, val |-> "pending"],
                  !.calls = Append(@, fetchCall("publicClient", RefreshPath,
                                                "POST", refreshToken,
                                                accessToken))])

RefreshSession(t) ==
    /\ begin(t)
    /\ UNCHANGED <<currentUser, accessToken, refreshToken, storage, storageMode>>
    /\ refreshSession(t, [Idle EXCEPT !.op = "refreshSession"])
    /\ quiet
    /\ UNCHANGED others

\* Faulty variant, for mutation checks: the callers that were handed the
\* pending promise are not resumed when it resolves
resolveRefreshOwnerOnly(t, f, status, payload, v) ==
    /\ task' = [task EXCEPT ![t] = [f EXCEPT !.pc = "refresh_await",
                                             !.awaited = [on |-> t, val |-> v],
                                             !.wrote = @ \/ touched]]
    /\ refreshPromise' = IF refreshPromise = [owner |-> t, val |-> "pending"]
                         THEN [owner |-> t, val |-> v] ELSE refreshPromise
    /\ settled' = event(t, "doRefresh", f, status, payload, Resolved(v))

\* the promise of the doRefresh() run by task t, whose frame is f, resolves
\* with v: every task awaiting that promise holds v from now on
resolveRefresh(t, f, status, payload, v) ==
    /\ task' = [u \in Tasks |->
                  IF u = t
                  THEN [f EXCEPT !.pc = "refresh_await",
                                       !.awaited = [on |-> t, val |-> v],
                                       !.wrote = @ \/ touched]
                  ELSE IF task[u].awaited = [on |-> t, val |-> "pending"]
                       THEN [task[u] EXCEPT !.awaited = [on |-> t, val |-> v]]
                       ELSE task[u]]
    /\ refreshPromise' = IF refreshPromise = [owner |-> t, val |-> "pending"]
                         THEN [owner |-> t, val |-> v] ELSE refreshPromise
    /\ settled' = event(t, "doRefresh", f, status, payload, Resolved(v))

\* the refresh call settles: lines 346-349, or the catch of 353-356
DoRefreshToken(t, status, tr) ==
    /\ task[t].pc = "refresh_token"
    /\ UNCHANGED <<storageMode, answeredEarly, opsStarted>>
    /\ LET outcome == responseOutcome("publicClient", FALSE, status) IN
       IF outcome = "json"
       THEN /\ accessToken' = tr.accessToken
            /\ refreshToken' = tr.refreshToken
            /\ UNCHANGED <<currentUser, storage, refreshPromise>>
            /\ quiet
            /\ suspend(t, [task[t] EXCEPT
                     !.pc = "refresh_me",
                     !.tokenResponse = tr,
                     !.calls = Append(@, fetchCall("authedClient", MePath, "GET",
                                                   Undefined, tr.accessToken))])
       ELSE /\ clearAuthState
            /\ resolveRefresh(t, raised(task[t], "publicClient", outcome),
                              status, Undefined, "false")
    /\ UNCHANGED others

\* Faulty variant, for mutation checks: a failing current-user call of doRefresh does not clear
DoRefreshMeKeepsSessionOnFailure(t, status, user) ==
    /\ task[t].pc = "refresh_me"
    /\ UNCHANGED <<storageMode, answeredEarly, opsStarted>>
    /\ LET outcome == responseOutcome("authedClient", FALSE, status) IN
       IF outcome = "json"
       THEN /\ setAuthState(user, task[t].tokenResponse.accessToken,
                            task[t].tokenResponse.refreshToken)
            /\ resolveRefresh(t, task[t], status, user, "true")
       ELSE /\ UNCHANGED <<currentUser, accessToken, refreshToken, storage>>
            /\ quiet
            /\ resolveRefresh(t, raised(task[t], "authedClient", outcome),
                              status, Undefined, "false")
    /\ UNCHANGED others

\* the current-user call of doRefresh settles: lines 349-352, or the catch
DoRefreshMe(t, status, user) ==
    /\ task[t].pc = "refresh_me"
    /\ UNCHANGED <<storageMode, answeredEarly, opsStarted>>
    /\ LET outcome == responseOutcome("authedClient", FALSE, status) IN
       IF outcome = "json"
       THEN /\ setAuthState(user, task[t].tokenResponse.accessToken,
                            task[t].tokenResponse.refreshToken)
            /\ resolveRefresh(t, task[t], status, user, "true")
       ELSE /\ clearAuthState
            /\ resolveRefresh(t, raised(task[t], "authedClient", outcome),
                              status, Undefined, "false")
    /\ UNCHANGED others

\* Faulty variant, for mutation checks: the finally of line 222 is missing
RefreshSettledKeepsMarker(t) ==
    /\ task[t].pc = "refresh_await"
    /\ UNCHANGED <<currentUser, accessToken, refreshToken, refreshPromise,
                   storage, storageMode, answeredEarly, opsStarted>>
    /\ IF task[t].op = "request"
       THEN suspend(t, [task[t] EXCEPT !.pc = "request_unauthorized"])
       ELSE settle(t, task[t], NoStatus, Undefined,
                   Resolved(task[t].awaited.val))
    /\ quiet
    /\ UNCHANGED others

\* the await of line 220 resumes in the task that started doRefresh; the
\* finally of line 222 clears the marker
RefreshSettled(t) ==
    /\ task[t].pc = "refresh_await"
    /\ refreshPromise' = NoPromise
    /\ answeredEarly' = FALSE
    /\ UNCHANGED <<currentUser, accessToken, refreshToken, storage, storageMode,
                   opsStarted>>
    /\ IF task[t].op = "request"
       THEN suspend(t, [task[t] EXCEPT !.pc = "request_unauthorized"])
       ELSE settle(t, task[t], NoStatus, Undefined,
                   Resolved(task[t].awaited.val))
    /\ quiet
    /\ UNCHANGED others

\* a direct caller that was handed the pending promise (line 216) resumes
RefreshJoined(t) ==
    /\ task[t].pc = "refresh_join"
    /\ task[t].awaited.val \in {"true", "false"}
    /\ UNCHANGED <<currentUser, accessToken, refreshToken, refreshPromise,
                   storage, storageMode, answeredEarly, opsStarted>>
    /\ settle(t, task[t], NoStatus, Undefined, Resolved(task[t].awaited.val))
    /\ quiet
    /\ UNCHANGED others

\* ---------------------------------------------------- HttpClient.request
\* request() on the client of createClient up to its await of fetch()
Request(t, input) ==
    /\ begin(t)
    /\ UNCHANGED <<currentUser, accessToken, refreshToken, refreshPromise,
                   storage, storageMode, answeredEarly>>
    /\ suspend(t, [Idle EXCEPT
             !.pc = "request_fetch",
             !.op = "request",
             !.request = [NoRequest EXCEPT !.path = input.path,
                                           !.method = input.method,
                                           !.body = input.body],
             !.calls = <<fetchCall("httpClient", input.path, input.method,
                                   input.body, accessToken)>>])
    /\ quiet
    /\ UNCHANGED others

\* Faulty variant, for mutation checks: the onError hook is called for the
\* 401 of the first attempt too, before the callback
RequestFetchHooksFirstAttempt(t, status, payload) ==
    /\ task[t].pc = "request_fetch"
    /\ UNCHANGED <<currentUser, accessToken, refreshToken, storage, storageMode,
                   opsStarted>>
    /\ LET outcome == responseOutcome("httpClient", task[t].request.isRetry, status) IN
       IF outcome = "unauthorized"
       THEN refreshSession(t, [task[t] EXCEPT !.request.unauthorized = @ + 1,
                                              !.hooked = @ + 1])
       ELSE /\ settle(t, raised(task[t], "httpClient", outcome), status,
                      IF outcome = "json" THEN payload ELSE Undefined,
                      requestSettles(outcome, status, payload))
            /\ UNCHANGED <<refreshPromise, answeredEarly>>
    /\ quiet
    /\ UNCHANGED others

\* Faulty variant, for mutation checks: request() drops the Session when a
\* response is an error
RequestFetchClearsOnError(t, status, payload) ==
    /\ task[t].pc = "request_fetch"
    /\ UNCHANGED <<storageMode, opsStarted>>
    /\ LET outcome == responseOutcome("httpClient", task[t].request.isRetry, status) IN
       IF outcome = "unauthorized"
       THEN /\ UNCHANGED <<currentUser, accessToken, refreshToken, storage>>
            /\ quiet
            /\ refreshSession(t, [task[t] EXCEPT !.request.unauthorized = @ + 1])
       ELSE /\ IF outcome = "api_error"
               THEN clearAuthState
               ELSE /\ UNCHANGED <<currentUser, accessToken, refreshToken,
                                   storage>>
                    /\ quiet
            /\ settle(t, raised(task[t], "httpClient", outcome), status,
                      IF outcome = "json" THEN payload ELSE Undefined,
                      requestSettles(outcome, status, payload))
            /\ UNCHANGED <<refreshPromise, answeredEarly>>
    /\ UNCHANGED others

\* fetch() settles: lines 429-452; a 401 goes into the callback (line 431)
RequestFetch(t, status, payload) ==
    /\ task[t].pc = "request_fetch"
    /\ UNCHANGED <<currentUser, accessToken, refreshToken, storage, storageMode,
                   opsStarted>>
    /\ LET outcome == responseOutcome("httpClient", task[t].request.isRetry, status) IN
       IF outcome = "unauthorized"
       THEN refreshSession(t, [task[t] EXCEPT !.request.unauthorized = @ + 1])
       ELSE /\ settle(t, raised(task[t], "httpClient", outcome), status,
                      IF outcome = "json" THEN payload ELSE Undefined,
                      requestSettles(outcome, status, payload))
            /\ UNCHANGED <<refreshPromise, answeredEarly>>
    /\ quiet
    /\ UNCHANGED others

\* Faulty variant, for mutation checks: the retry is issued without the caller's method and body
RequestUnauthorizedRetriesBare(t) ==
    /\ task[t].pc = "request_unauthorized"
    /\ task[t].awaited.val \in {"true", "false"}
    /\ UNCHANGED <<currentUser, accessToken, refreshToken, refreshPromise,
                   storage, storageMode, answeredEarly, opsStarted>>
    /\ LET f == [task[t] EXCEPT !.request.refreshed = task[t].awaited.val,
                                !.awaited = NotAwaiting] IN
       IF f.request.refreshed = "true"
       THEN suspend(t, [f EXCEPT
                  !.pc = "request_fetch",
                  !.request.isRetry = TRUE,
                  !.calls = Append(@, fetchCall("httpClient", f.request.path,
                                                "GET", Undefined, accessToken))])
       ELSE settle(t, raised(f, "httpClient", "api_error"), 401, Undefined,
                   MitraApiError(401))
    /\ quiet
    /\ UNCHANGED others

\* Faulty variant, for mutation checks: the retry is issued whatever the callback resolved to
RequestUnauthorizedRetriesAlways(t) ==
    /\ task[t].pc = "request_unauthorized"
    /\ task[t].awaited.val \in {"true", "false"}
    /\ UNCHANGED <<currentUser, accessToken, refreshToken, refreshPromise,
                   storage, storageMode, answeredEarly, opsStarted>>
    /\ LET f == [task[t] EXCEPT !.request.refreshed = task[t].awaited.val,
                                !.awaited = NotAwaiting] IN
       suspend(t, [f EXCEPT
             !.pc = "request_fetch",
             !.request.isRetry = TRUE,
             !.calls = Append(@, fetchCall("httpClient", f.request.path,
                                           f.request.method, f.request.body,
                                           accessToken))])
    /\ quiet
    /\ UNCHANGED others

\* Faulty variant, for mutation checks: the retry reuses the Authorization
\* header computed for the first attempt
RequestUnauthorizedResendsFirstToken(t) ==
    /\ task[t].pc = "request_unauthorized"
    /\ task[t].awaited.val \in {"true", "false"}
    /\ UNCHANGED <<currentUser, accessToken, refreshToken, refreshPromise,
                   storage, storageMode, answeredEarly, opsStarted>>
    /\ LET f == [task[t] EXCEPT !.request.refreshed = task[t].awaited.val,
                                !.awaited = NotAwaiting] IN
       IF f.request.refreshed = "true"
       THEN suspend(t, [f EXCEPT
                  !.pc = "request_fetch",
                  !.request.isRetry = TRUE,
                  !.calls = Append(@, [f.calls[1] EXCEPT
                                          !.path = f.request.path,
                                          !.method = f.request.method,
                                          !.body = f.request.body])])
       ELSE settle(t, raised(f, "httpClient", "api_error"), 401, Undefined,
                   MitraApiError(401))
    /\ quiet
    /\ UNCHANGED others

\* await this.onUnauthorized() resumes: lines 432-445
RequestUnauthorized(t) ==
    /\ task[t].pc = "request_unauthorized"
    /\ task[t].awaited.val \in {"true", "false"}
    /\ UNCHANGED <<currentUser, accessToken, refreshToken, refreshPromise,
                   storage, storageMode, answeredEarly, opsStarted>>
    /\ LET f == [task[t] EXCEPT !.request.refreshed = task[t].awaited.val,
                                !.awaited = NotAwaiting] IN
       IF f.request.refreshed = "true"
       THEN suspend(t, [f EXCEPT
                  !.pc = "request_fetch",
                  !.request.isRetry = TRUE,
                  !.calls = Append(@, fetchCall("httpClient", f.request.path,
                                                f.request.method, f.request.body,
                                                accessToken))])
       ELSE settle(t, raised(f, "httpClient", "api_error"), 401, Undefined,
                   MitraApiError(401))
    /\ quiet
    /\ UNCHANGED others

\* ------------------------------------------------------ onAuthStateChange
\* the error a raising callback lets out of onAuthStateChange()
ListenerError == [kind |-> "ListenerError", status |-> NoStatus, value |-> Undefined]

\* the listeners with l added (a Set: adding a member again changes nothing)
added(l) ==
    IF \E i \in 1..Len(listeners) : listeners[i] = l
    THEN listeners ELSE Append(listeners, l)

\* onAuthStateChange(callback): lines 331-336; the immediate invocation of
\* line 332 is outside any try, so what the callback raises leaves the
\* method before the unsubscribe handle is returned
OnAuthStateChange(l) ==
    /\ called
    /\ listeners' = added(l)
    /\ notified' = <<invoked(l, currentUser)>>
    /\ UNCHANGED <<currentUser, accessToken, refreshToken, refreshPromise,
                   storage, storageMode, task, answeredEarly, initialized,
                   appInfo, exchange>>
    /\ settled' = event(0, "onAuthStateChange", Idle, NoStatus, l,
                        IF l \in Throwing THEN ListenerError
                        ELSE Resolved("unsubscribe"))

\* Faulty variant, for mutation checks: the handle does not delete
UnsubscribeLeavesListener(l) ==
    /\ called
    /\ l \notin Throwing
    /\ \E i \in 1..Len(listeners) : listeners[i] = l
    /\ listeners' = listeners
    /\ quiet
    /\ UNCHANGED <<currentUser, accessToken, refreshToken, refreshPromise,
                   storage, storageMode, task, answeredEarly, initialized,
                   appInfo, exchange>>
    /\ settled' = event(0, "unsubscribe", Idle, NoStatus, l, Resolved(Undefined))

\* the handle onAuthStateChange(l) returned is called: line 335
Unsubscribe(l) ==
    /\ called
    /\ l \notin Throwing
    /\ \E i \in 1..Len(listeners) : listeners[i] = l
    /\ listeners' = SelectSeq(listeners, LAMBDA m : m # l)
    /\ quiet
    /\ UNCHANGED <<currentUser, accessToken, refreshToken, refreshPromise,
                   storage, storageMode, task, answeredEarly, initialized,
                   appInfo, exchange>>
    /\ settled' = event(0, "unsubscribe", Idle, NoStatus, l, Resolved(Undefined))

\* ----------------------------------------------------------- constructor
\* Something other than this AuthModule (another version of the application,
\* another script of the page) leaves a text of its own in the slot.
StorageReplaced(item) ==
    /\ called
    /\ storageMode = "ok"
    /\ storage' = item
    /\ quiet
    /\ settled' = NoEvent
    /\ UNCHANGED <<currentUser, accessToken, refreshToken, refreshPromise,
                   storageMode, task, answeredEarly, listeners, initialized,
                   appInfo, exchange>>

\* The page is loaded again and createClient builds a new AuthModule over
\* the same storage: lines 89-104; what the earlier one was doing is gone.
Construct ==
    /\ called
    /\ currentUser' = IF storageMode = "disabled" THEN Null
                      ELSE loadFromStorage(storage).user
    /\ accessToken' = IF storageMode = "disabled" THEN Null
                      ELSE loadFromStorage(storage).token
    /\ refreshToken' = IF storageMode = "disabled" THEN Null
                       ELSE loadFromStorage(storage).refreshToken
    /\ IF parseThrows(storage) THEN removeFromStorage ELSE UNCHANGED storage
    /\ refreshPromise' = NoPromise
    /\ task' = [t \in Tasks |-> Idle]
    /\ answeredEarly' = FALSE
    /\ listeners' = <<>>
    /\ quiet
    /\ initialized' = FALSE
    /\ appInfo' = Null
    /\ settled' = event(0, "constructor", Idle, NoStatus, Undefined,
                        Resolved(Undefined))
    /\ UNCHANGED <<storageMode, exchange>>

\* -------------------------------------------------------- createClient.init
\* init() up to its await of the app-info call: lines 263-274
ClientInit(t) ==
    /\ begin(t)
    /\ UNCHANGED <<currentUser, accessToken, refreshToken, refreshPromise,
                   storage, storageMode, answeredEarly, listeners, initialized,
                   appInfo, exchange>>
    /\ quiet
    /\ IF initialized
       THEN settle(t, [Idle EXCEPT !.op = "init"], NoStatus, Undefined,
                   Resolved(Undefined))
       ELSE suspend(t, [Idle EXCEPT
                  !.pc = "init_fetch",
                  !.op = "init",
                  !.calls = <<fetchCall("initClient", InfoPath, "GET", Undefined,
                                        accessToken)>>])

\* the app-info call settles: lines 276-280
ClientInitInfo(t, status, info) ==
    /\ task[t].pc = "init_fetch"
    /\ UNCHANGED <<currentUser, accessToken, refreshToken, refreshPromise,
                   storage, storageMode, answeredEarly, listeners, exchange,
                   opsStarted>>
    /\ quiet
    /\ LET outcome == responseOutcome("initClient", FALSE, status) IN
       IF outcome = "json"
       THEN /\ appInfo' = info
            /\ initialized' = TRUE
            /\ settle(t, task[t], status, info, Resolved(Undefined))
       ELSE /\ UNCHANGED <<appInfo, initialized>>
            /\ settle(t, raised(task[t], "initClient", outcome), status,
                      Undefined, requestSettles(outcome, status, Undefined))

\* ------------------------------------------- request() looked at by itself
\* base address and path of the request looked at
BaseUrl == <<"h", ":", "/", "d", "m">>
PathText == <<"/", "e">>

\* request() up to its call of fetch(): lines 395-427
RequestPrepared(client, headers, params) ==
    /\ exchange' = [NoExchange EXCEPT
                       !.kind = "prepared",
                       !.client = client,
                       !.token = tokenGetter(client, accessToken),
                       !.perCall = headers,
                       !.params = params,
                       !.url = requestUrl(BaseUrl, PathText, params),
                       !.headers = requestHeaders(defaultHeaders(client), headers,
                                                  tokenGetter(client, accessToken))]
    /\ UNCHANGED <<currentUser, accessToken, refreshToken, refreshPromise,
                   storage, storageMode, task, settled, answeredEarly, listeners,
                   notified, initialized, appInfo, opsStarted>>

\* request() from a response that is not ok and is not retried: lines
\* 429-446, with isRetry as the call was given it and refreshed what the
\* callback resolved to when it was invoked
RequestFailed(client, isRetry, refreshed, status, body) ==
    /\ \/ responseOutcome(client, isRetry, status) = "api_error"
             /\ refreshed = "none"
       \/ responseOutcome(client, isRetry, status) = "unauthorized"
             /\ refreshed = "false"
    /\ exchange' = [NoExchange EXCEPT
                       !.kind = "failed",
                       !.client = client,
                       !.isRetry = isRetry,
                       !.refreshed = refreshed,
                       !.status = status,
                       !.body = body,
                       !.raised = raisedFor(client, status, body)]
    /\ UNCHANGED <<currentUser, accessToken, refreshToken, refreshPromise,
                   storage, storageMode, task, settled, answeredEarly, listeners,
                   notified, initialized, appInfo, opsStarted>>

\* ------------------------------------------------------------------ Next
Next ==
    \/ SignOut
    \/ \E tok \in AccessTokens, persist \in BOOLEAN : SetToken(tok, persist)
    \/ \E t \in Tasks :
        \/ \E c \in Credentials : SignIn(t, c)
        \/ \E s \in AuthStatuses, tr \in AuthTokenResponse : SignInToken(t, s, tr)
        \/ \E s \in AuthStatuses, u \in Users : SignInMe(t, s, u)
        \/ \E c \in Credentials : SignUp(t, c)
        \/ \E s \in AuthStatuses : SignUpRegister(t, s)
        \/ Me(t)
        \/ \E s \in AuthStatuses, u \in Users : MeFetch(t, s, u)
        \/ RefreshSession(t)
        \/ \E s \in AuthStatuses, tr \in AuthTokenResponse : DoRefreshToken(t, s, tr)
        \/ \E s \in AuthStatuses, u \in Users : DoRefreshMe(t, s, u)
        \/ RefreshSettled(t)
        \/ RefreshJoined(t)
        \/ \E i \in RequestInputs : Request(t, i)
        \/ \E s \in DataStatuses : RequestFetch(t, s, DataPayload)
        \/ RequestUnauthorized(t)

Spec == Init /\ [][Next]_vars

\* The Session Store by itself, without request(): its operations with
\* listeners registered and removed, and with the page loaded again over
\* whatever the slot holds.
NextStore ==
    \/ SignOut
    \/ \E tok \in AccessTokens, persist \in BOOLEAN : SetToken(tok, persist)
    \/ \E l \in ListenerIds : OnAuthStateChange(l)
    \/ \E l \in ListenerIds : Unsubscribe(l)
    \/ \E item \in CorruptItems : StorageReplaced(item)
    \/ Construct
    \/ \E t \in Tasks :
        \/ \E c \in Credentials : SignIn(t, c)
        \/ \E s \in AuthStatuses, tr \in AuthTokenResponse : SignInToken(t, s, tr)
        \/ \E s \in AuthStatuses, u \in Users : SignInMe(t, s, u)
        \/ \E c \in Credentials : SignUp(t, c)
        \/ \E s \in AuthStatuses : SignUpRegister(t, s)
        \/ Me(t)
        \/ \E s \in AuthStatuses, u \in Users : MeFetch(t, s, u)
        \/ RefreshSession(t)
        \/ \E s \in AuthStatuses, tr \in AuthTokenResponse : DoRefreshToken(t, s, tr)
        \/ \E s \in AuthStatuses, u \in Users : DoRefreshMe(t, s, u)
        \/ RefreshSettled(t)
        \/ RefreshJoined(t)

SpecStore == Init /\ [][NextStore]_vars

\* The Session Store with every write to the Session persisted: as
\* SpecStore without listeners, without anything else writing to the slot,
\* and with setToken() always asked to persist.
NextSession ==
    \/ SignOut
    \/ \E tok \in AccessTokens : SetToken(tok, TRUE)
    \/ \E t \in Tasks :
        \/ \E c \in Credentials : SignIn(t, c)
        \/ \E s \in AuthStatuses, tr \in AuthTokenResponse : SignInToken(t, s, tr)
        \/ \E s \in AuthStatuses, u \in Users : SignInMe(t, s, u)
        \/ \E c \in Credentials : SignUp(t, c)
        \/ \E s \in AuthStatuses : SignUpRegister(t, s)
        \/ Me(t)
        \/ \E s \in AuthStatuses, u \in Users : MeFetch(t, s, u)
        \/ RefreshSession(t)
        \/ \E s \in AuthStatuses, tr \in AuthTokenResponse : DoRefreshToken(t, s, tr)
        \/ \E s \in AuthStatuses, u \in Users : DoRefreshMe(t, s, u)
        \/ RefreshSettled(t)
        \/ RefreshJoined(t)

SpecSession == Init /\ [][NextSession]_vars

\* The Request Executor over a Session Store with listeners: request() on
\* the client of createClient, the refresh its callback runs, and callbacks
\* being registered.
NextExecutor ==
    \/ \E l \in ListenerIds : OnAuthStateChange(l)
    \/ \E t \in Tasks :
        \/ \E i \in RequestInputs : Request(t, i)
        \/ \E s \in DataStatuses : RequestFetch(t, s, DataPayload)
        \/ RequestUnauthorized(t)
        \/ \E s \in AuthStatuses, tr \in AuthTokenResponse : DoRefreshToken(t, s, tr)
        \/ \E s \in AuthStatuses, u \in Users : DoRefreshMe(t, s, u)
        \/ RefreshSettled(t)

SpecExecutor == Init /\ [][NextExecutor]_vars

\* Every fetch() a task waits for is answered or fails, and a continuation
\* whose promise has settled is run by the job queue: the steps after an
\* await of request() (lines 423, 432) and of refreshSession()/doRefresh()
\* (integration.ts lines 220, 341, 349) are taken once they can be.
ExecutorFairness ==
    \A t \in Tasks :
        /\ WF_vars(\E s \in DataStatuses : RequestFetch(t, s, DataPayload))
        /\ WF_vars(RequestUnauthorized(t))
        /\ WF_vars(\E s \in AuthStatuses, tr \in AuthTokenResponse :
                      DoRefreshToken(t, s, tr))
        /\ WF_vars(\E s \in AuthStatuses, u \in Users : DoRefreshMe(t, s, u))
        /\ WF_vars(RefreshSettled(t))

SpecExecutorLive == Init /\ [][NextExecutor]_vars /\ ExecutorFairness

\* inputs of the request() looked at by itself
Clients == {"httpClient", "publicClient", "authedClient"}
PerCallHeaders ==
    {h \in [HeaderNames -> {Absent, "text/plain", "other", "Basic x"}] :
        /\ h["Content-Type"] \in {Absent, "text/plain"}
        /\ h["X-App-Id"] \in {Absent, "other"}
        /\ h["Authorization"] \in {Absent, "Basic x"}}
ParamKeys == {<<"l", "i", "m", "i", "t">>, <<"q", "?">>}
ParamValues == {UndefinedValue, NumberValue(10), BooleanValue(TRUE),
                StringValue(<<"a", " ", "b">>), StringValue(<<"x", "&", "y", "=">>),
                StringValue(<<>>)}
ParamEntries == {[key |-> k, value |-> v] : k \in ParamKeys, v \in ParamValues}
Params ==
    {NoParams, ParamsObject(<<>>)}
    \cup {ParamsObject(<<e>>) : e \in ParamEntries}
    \cup {ParamsObject(<<e1, e2>>) : e1, e2 \in ParamEntries}
ErrorStatuses == {400, 401, 500}
ErrorBodies == {UnparseableBody, NullBody, NumberBody,
                ObjectBody(Undefined, Undefined), ObjectBody("m1", Undefined),
                ObjectBody(Undefined, "E1"), ObjectBody("m1", "E1")}

\* request() by itself, over its inputs: each behaviour looks at one call
NextWire ==
    \/ \E client \in Clients, headers \in PerCallHeaders, params \in Params :
          /\ exchange = NoExchange
          /\ \A i, j \in 1..Len(params.entries) :
                i # j => params.entries[i].key # params.entries[j].key
          /\ RequestPrepared(client, headers, params)
    \/ \E client \in Clients, isRetry \in BOOLEAN, refreshed \in {"none", "false"},
          status \in ErrorStatuses, body \in ErrorBodies :
          /\ exchange = NoExchange
          /\ RequestFailed(client, isRetry, refreshed, status, body)

SpecWire == Init /\ [][NextWire]_vars

\* The operations that fetch the user, interleaved: me(), signIn and
\* refreshSession, with nothing else changing the Session.
NextUser ==
    \E t \in Tasks :
        \/ \E c \in Credentials : SignIn(t, c)
        \/ \E s \in AuthStatuses, tr \in AuthTokenResponse : SignInToken(t, s, tr)
        \/ \E s \in AuthStatuses, u \in Users : SignInMe(t, s, u)
        \/ Me(t)
        \/ \E s \in AuthStatuses, u \in Users : MeFetch(t, s, u)
        \/ RefreshSession(t)
        \/ \E s \in AuthStatuses, tr \in AuthTokenResponse : DoRefreshToken(t, s, tr)
        \/ \E s \in AuthStatuses, u \in Users : DoRefreshMe(t, s, u)
        \/ RefreshSettled(t)
        \/ RefreshJoined(t)

SpecUser == Init /\ [][NextUser]_vars

\* init() alone, called from up to two places at once
NextInit ==
    \E t \in Tasks :
        \/ ClientInit(t)
        \/ \E s \in AuthStatuses, info \in AppInfos : ClientInitInfo(t, s, info)

SpecInit == Init /\ [][NextInit]_vars

\* ================================================================ claims
\* The outcome the specification gives request() for a response with this
\* status: rejection with the fetch error on a network failure, undefined
\* on 204, the parsed body on any other 2xx, MitraApiError otherwise.
outcomeOf(status, payload) ==
    CASE status = NetworkFailure -> NetworkError
      [] status = 204 -> Resolved(Undefined)
      [] status >= 200 /\ status <= 299 -> Resolved(payload)
      [] OTHER -> MitraApiError(status)

sessionCleared ==
    currentUser = Null /\ accessToken = Null /\ refreshToken = Null

\* tasks whose doRefresh() is between its first call and its resolution
refreshing == {t \in Tasks : task[t].pc \in {"refresh_token", "refresh_me"}}

\* C1: while a refresh is pending, every caller of refreshSession() resolves
\* to the same boolean as that refresh, and one refresh is in flight at most.
\* The code answers false at once (integration.ts line 214) to a caller that
\* arrives after signOut() cleared the refresh token, while the pending
\* refresh goes on to resolve true.
C1_CallersShareOutcome ==
    /\ Cardinality(refreshing) <= 1
    /\ settled.op = "doRefresh" =>
          /\ answeredEarly => settled.result = Resolved("false")
          /\ \A u \in Tasks :
                task[u].awaited.on = settled.task
                    => Resolved(task[u].awaited.val) = settled.result

\* C2: when request() gets a 401 and the callback resolves true, the request
\* is issued exactly once more with the same path, method and body, and the
\* caller receives the outcome of that second call.
C2_RetriedOnceAfterRefresh ==
    /\ \A t \in Tasks :
          (task[t].op = "request" /\ task[t].request.refreshed = "true")
              => Len(sentBy(task[t])) = 2
    /\ (settled.op = "request" /\ settled.request.refreshed = "true") =>
          /\ Len(settled.sent) = 2
          /\ \A i \in 1..Len(settled.sent) :
                /\ settled.sent[i].path = settled.request.path
                /\ settled.sent[i].method = settled.request.method
                /\ settled.sent[i].body = settled.request.body
          /\ settled.request \in
                {[NoRequest EXCEPT !.path = i.path, !.method = i.method,
                                   !.body = i.body, !.isRetry = TRUE,
                                   !.refreshed = "true", !.unauthorized = 1]
                   : i \in RequestInputs}
          /\ settled.result = outcomeOf(settled.status, DataPayload)

C2_Witness ==
    /\ settled.op = "request"
    /\ settled.request.refreshed = "true"
    /\ Len(settled.sent) = 2
    /\ settled.result = Resolved(DataPayload)

C5_SignInCommitsAtomically ==
    (settled.op = "signIn" /\ settled.result.kind # "resolved")
        => ~settled.wrote

C7_DurableRecordMirrors ==
    /\ (settled.op = "signIn" /\ settled.result.kind = "resolved") =>
          /\ isAuthenticated
          /\ storage = JSONstringify(currentUser, accessToken, refreshToken)
    /\ settled.op = "signOut" =>
          /\ ~isAuthenticated
          /\ sessionCleared
          /\ storage = NoItem

\* C7, amended: the durable record mirrors the Session after signIn where
\* localStorage is available; isAuthenticated, the Session fields and the
\* effect of signOut are as stated everywhere.
C7_MirrorsWhereStorageWorks ==
    /\ (settled.op = "signIn" /\ settled.result.kind = "resolved") =>
          /\ isAuthenticated
          /\ currentUser = settled.payload
          /\ accessToken = settled.tokenResponse.accessToken
          /\ refreshToken = settled.tokenResponse.refreshToken
          /\ storageMode = "ok" =>
                storage = JSONstringify(currentUser, accessToken, refreshToken)
    /\ settled.op = "signOut" =>
          /\ ~isAuthenticated
          /\ sessionCleared
          /\ storage = NoItem

C7_Witness ==
    /\ settled.op = "signIn"
    /\ settled.result.kind = "resolved"
    /\ storageMode = "ok"
    /\ storage = JSONstringify(settled.payload, settled.tokenResponse.accessToken,
                               settled.tokenResponse.refreshToken)

C9_FalseMeansCleared ==
    settled.op = "refreshSession" =>
        /\ settled.result = Resolved("false") =>
              (sessionCleared /\ storage = NoItem)
        /\ settled.result = Resolved("true") => isAuthenticated

\* C9, amended: when a refresh that was started settles false the Session is
\* entirely cleared and the durable record removed at that moment; when it
\* settles true the Session holds the new token pair and the fetched user
\* at that moment; a refreshSession() that makes no call of its own changes
\* nothing, so one called without a refresh token resolves false over
\* whatever user and access token the Session holds.
C9_RefreshSettlesWhole ==
    /\ (settled.op = "doRefresh" /\ settled.result = Resolved("false")) =>
          (sessionCleared /\ storage = NoItem)
    /\ (settled.op = "doRefresh" /\ settled.result = Resolved("true")) =>
          /\ currentUser = settled.payload
          /\ currentUser \in Users
          /\ accessToken = settled.tokenResponse.accessToken
          /\ refreshToken = settled.tokenResponse.refreshToken
          /\ settled.tokenResponse \in AuthTokenResponse
          /\ storageMode = "ok" =>
                storage = JSONstringify(currentUser, accessToken, refreshToken)
    /\ (settled.op = "refreshSession" /\ settled.paths = <<>>) => ~settled.wrote

C9_Witness ==
    /\ settled.op = "doRefresh"
    /\ settled.result = Resolved("false")
    /\ settled.wrote
    /\ sessionCleared

\* C10: refreshSession() called while no refresh token is held resolves
\* false in the step that calls it and issues no network call.
C10_NoTokenNoRefresh ==
    [][refreshToken = Null =>
          \A t \in Tasks :
             /\ (task[t].pc # "refresh_token") => (task'[t].pc # "refresh_token")
             /\ (task[t].pc = "idle" /\ (task'[t].op = "refreshSession"
                    \/ (settled'.task = t /\ settled'.op = "refreshSession")))
                  => /\ task'[t] = Idle
                     /\ settled'.result = Resolved("false")
                     /\ settled'.paths = <<>>
                     /\ refreshPromise' = refreshPromise]_vars

C10_Witness ==
    /\ settled.op = "refreshSession"
    /\ refreshToken = Null
    /\ settled.paths = <<>>
    /\ settled.result = Resolved("false")
    /\ ~settled.wrote

\* tasks whose refreshSession() started a doRefresh() and has not resumed
\* from its await of line 220
refreshOwners ==
    {t \in Tasks : task[t].pc \in {"refresh_token", "refresh_me", "refresh_await"}}

\* C11: the pending-refresh marker is set only while the refreshSession()
\* that set it has not resumed, whatever the refresh resolved to; so once a
\* refresh has settled and its caller has resumed, a refreshSession() made
\* while a refresh token is held (directly, or as the callback of a 401)
\* starts a new refresh with a new call to the refresh endpoint.
C11_MarkerClearedAfterRefresh ==
    /\ [](refreshPromise # NoPromise => refreshPromise.owner \in refreshOwners)
    /\ [][(refreshToken # Null /\ refreshOwners = {}) =>
            \A t \in Tasks :
               (\/ task[t].pc = "idle" /\ task'[t].op = "refreshSession"
                \/ task[t].pc = "idle" /\ settled'.task = t
                       /\ settled'.op = "refreshSession"
                \/ task[t].pc = "request_fetch"
                       /\ task'[t].request.unauthorized
                             = task[t].request.unauthorized + 1)
               => /\ task'[t].pc = "refresh_token"
                  /\ refreshPromise' = [owner |-> t, val |-> "pending"]
                  /\ task'[t].calls =
                        Append(task[t].calls,
                               fetchCall("publicClient", RefreshPath, "POST",
                                         refreshToken, accessToken))]_vars

C11_Witness ==
    \E t, u \in Tasks :
        /\ t # u
        /\ task[t].op = "request"
        /\ task[t].request.refreshed = "true"
        /\ \E i \in 1..Len(task[t].calls) : task[t].calls[i].path = RefreshPath
        /\ task[u].pc = "refresh_token"
        /\ refreshPromise = [owner |-> u, val |-> "pending"]

\* C12: the onError hook of the client fires exactly once for a request()
\* that ends in a MitraApiError and never for one that ends in success; a
\* first attempt answered 401 and retried has not fired it.
C12_HookOncePerFailedRequest ==
    /\ \A t \in Tasks : task[t].op = "request" => task[t].hooked = 0
    /\ settled.op = "request" =>
          settled.hooked = IF settled.result.kind = "MitraApiError" THEN 1 ELSE 0

C12_Witness ==
    /\ settled.op = "request"
    /\ settled.request.isRetry
    /\ Len(settled.sent) = 2
    /\ settled.result = MitraApiError(500)
    /\ settled.hooked = 1

\* C13: the onError handler given to createClient is called whenever a
\* request made through the client is answered with an error status, the
\* requests of signIn, signUp, refresh and me() included.
\* AuthModule builds publicClient and authedClient without the handler
\* (integration.ts lines 101-102), so their errors never reach it.
C13_HookCoversAuthRequests ==
    (/\ settled.op \in {"signIn", "signUp", "me", "doRefresh", "request"}
     /\ settled.status \notin {NoStatus, NetworkFailure}
     /\ ~responseOk(settled.status))
        => settled.hooked >= 1

\* C14: once init() has been called (it has completed, or a call of it is
\* still awaiting the app info), a further init() is a no-op: it returns
\* at once, issues no network call and changes nothing.
\* The code sets `initialized` only after the await (part_002 line 281), so
\* an init() called while another awaits issues a second app-info call.
C14_InitIsIdempotent ==
    [][(initialized \/ \E u \in Tasks : task[u].op = "init") =>
          \A t \in Tasks :
             (task[t].pc = "idle"
                /\ (task'[t].op = "init"
                      \/ (settled'.task = t /\ settled'.op = "init")))
             => /\ task'[t] = Idle
                /\ settled'.paths = <<>>
                /\ settled'.result = Resolved(Undefined)
                /\ UNCHANGED <<initialized, appInfo>>]_vars

\* the callbacks now registered
registered == {listeners[i] : i \in 1..Len(listeners)}

\* the step just taken committed or cleared the Session: signIn or signUp
\* resolved, a refresh settled, me() got the user or a 401, signOut returned
commitOrClear ==
    \/ settled.op \in {"signIn", "signUp"} /\ settled.result.kind = "resolved"
    \/ settled.op = "doRefresh"
    \/ settled.op = "me" /\ (settled.status = 401 \/ responseOk(settled.status))
    \/ settled.op = "signOut"

\* every registered callback was invoked exactly once, with the current user
allNotifiedOnce ==
    /\ Len(notified) = Len(listeners)
    /\ \A l \in registered :
          Cardinality({i \in 1..Len(notified) :
                          notified[i] = invoked(l, currentUser)}) = 1

\* C15: a listener is invoked once, with the current user, when it is
\* registered, and once on every later commit or clear of the Session; no
\* other step invokes a listener, and once its unsubscribe handle has been
\* called it is registered no more and so is not invoked again.
C15_ListenersFollowSession ==
    /\ Cardinality(registered) = Len(listeners)
    /\ \A i \in 1..Len(notified) : notified[i].listener \in registered
    /\ settled.op = "onAuthStateChange" =>
          /\ settled.payload \in registered
          /\ notified = <<invoked(settled.payload, currentUser)>>
    /\ settled.op = "unsubscribe" =>
          /\ settled.payload \notin registered
          /\ notified = <<>>
    /\ commitOrClear => allNotifiedOnce
    /\ (~commitOrClear /\ settled.op # "onAuthStateChange") => notified = <<>>

C15_Witness ==
    /\ settled.op = "signIn"
    /\ settled.result.kind = "resolved"
    /\ listeners = <<"l1">>
    /\ notified = <<invoked("l1", settled.result.value)>>
    /\ opsStarted = 3

\* C16: a callback that raises never keeps the other callbacks from being
\* notified, and what it raises is never propagated, at the invocation on
\* registration as at later notifications.
\* The invocation of line 332 is in no try: onAuthStateChange() throws what
\* the callback raises, after having registered it and before returning the
\* unsubscribe handle.
C16_ListenerErrorsContained ==
    /\ commitOrClear => allNotifiedOnce
    /\ settled.op = "signOut" => settled.result = Resolved(Undefined)
    /\ settled.op = "onAuthStateChange" => settled.result.kind = "resolved"

\* C17: setToken(token, persist) changes the access token only: the user
\* record and the refresh token stay, no listener is called, and the durable
\* record stays too when persist is false.
C17_SetTokenSetsAccessTokenOnly ==
    [][settled'.op = "setToken" =>
          /\ accessToken' \in AccessTokens
          /\ currentUser' = currentUser
          /\ refreshToken' = refreshToken
          /\ ~settled'.persist => storage' = storage
          /\ (settled'.persist /\ storageMode = "ok") =>
                storage' = JSONstringify(currentUser, accessToken', refreshToken)
          /\ UNCHANGED <<task, refreshPromise, listeners>>
          /\ notified' = <<>>]_vars

C17_Witness ==
    /\ settled.op = "setToken"
    /\ ~settled.persist
    /\ currentUser = "u1"
    /\ refreshToken = "r1"
    /\ accessToken = "t2"
    /\ storage = JSONstringify("u1", "t1", "r1")

\* the step just taken wrote the Session to the slot: a commit, a user
\* fetched by me(), or a setToken() asked to persist
persisted ==
    \/ settled.op \in {"signIn", "signUp"} /\ settled.result.kind = "resolved"
    \/ settled.op = "doRefresh" /\ settled.result = Resolved("true")
    \/ settled.op = "me" /\ responseOk(settled.status)
    \/ settled.op = "setToken" /\ settled.persist

\* C18: what an AuthModule persists is its Session, and a new AuthModule
\* constructed over a record persisted that way starts with the user, the
\* access token and the refresh token of the record, and leaves it in place.
C18_StorageRoundTrip ==
    /\ []((persisted /\ storageMode = "ok") =>
            storage = JSONstringify(currentUser, accessToken, refreshToken))
    /\ [][(/\ settled'.op = "constructor"
           /\ storage.kind = "json"
           /\ storage.refreshToken # Undefined)
          => /\ currentUser' = storage.user
             /\ accessToken' = storage.token
             /\ refreshToken' = storage.refreshToken
             /\ storage' = storage]_vars

C18_Witness ==
    /\ settled.op = "constructor"
    /\ currentUser = "u2"
    /\ accessToken = "t2"
    /\ refreshToken = "r2"
    /\ storage = JSONstringify("u2", "t2", "r2")

\* C19: a new AuthModule constructed over a corrupt or unparsable record
\* starts with the three Session fields absent, unauthenticated, and clears
\* the slot.
\* The code clears only when JSON.parse or the destructuring throws (lines
\* 413-415): a text that parses to an object without the keys, such as "{}",
\* is kept, and seeds user and token with undefined, which isAuthenticated
\* (!== null) takes for present.
C19_CorruptRecordDiscarded ==
    [][(settled'.op = "constructor" /\ storage \in CorruptItems)
          => /\ falsy(currentUser')
             /\ falsy(accessToken')
             /\ falsy(refreshToken')
             /\ ~(currentUser' # Null /\ accessToken' # Null)
             /\ storage' = NoItem]_vars

\* C20: a failing storage call is never surfaced: whether localStorage
\* works or not, each operation ends with the result, the Session and the
\* listener notifications that its responses alone determine.
C20_StorageFailuresAbsorbed ==
    /\ settled.result.kind \in
          {"pending", "resolved", "MitraApiError", "NetworkError", "ListenerError"}
    /\ (settled.op \in {"signIn", "signUp"} /\ responseOk(settled.status)) =>
          /\ settled.result = Resolved(settled.payload)
          /\ currentUser = settled.payload
          /\ accessToken = settled.tokenResponse.accessToken
          /\ refreshToken = settled.tokenResponse.refreshToken
          /\ allNotifiedOnce
    /\ (settled.op = "doRefresh" /\ responseOk(settled.status)) =>
          /\ settled.result = Resolved("true")
          /\ currentUser = settled.payload
          /\ accessToken = settled.tokenResponse.accessToken
          /\ refreshToken = settled.tokenResponse.refreshToken
          /\ allNotifiedOnce
    /\ (settled.op = "doRefresh" /\ ~responseOk(settled.status)) =>
          /\ settled.result = Resolved("false")
          /\ sessionCleared
          /\ allNotifiedOnce
    /\ (settled.op = "me" /\ responseOk(settled.status)) =>
          /\ settled.result = Resolved(settled.payload)
          /\ currentUser = settled.payload
          /\ allNotifiedOnce
    /\ (settled.op = "me" /\ settled.status = 401) =>
          /\ settled.result = Resolved(Null)
          /\ sessionCleared
          /\ allNotifiedOnce
    /\ settled.op = "setToken" =>
          /\ settled.result = Resolved(Undefined)
          /\ accessToken = settled.payload
    /\ settled.op = "signOut" =>
          /\ settled.result = Resolved(Undefined)
          /\ sessionCleared
          /\ allNotifiedOnce
    /\ settled.op = "constructor" =>
          /\ settled.result = Resolved(Undefined)
          /\ storageMode = "disabled" => sessionCleared

C20_Witness ==
    /\ storageMode = "disabled"
    /\ settled.op = "signIn"
    /\ settled.result.kind = "resolved"
    /\ isAuthenticated
    /\ storage = NoItem
    /\ Len(listeners) = 2
    /\ allNotifiedOnce

\* C21: when the fetch() of request() rejects, request() rejects with that
\* error, which is no MitraApiError, in the same step: the callback is not
\* invoked, no further call is issued (the failed call is the only one of
\* that request() invocation) and the onError hook is not called.
C21_NetworkFailurePropagates ==
    /\ []((settled.op = "request" /\ settled.status = NetworkFailure) =>
            /\ settled.result = NetworkError
            /\ settled.result.kind # "MitraApiError"
            /\ settled.hooked = 0
            /\ Len(settled.sent) = IF settled.request.isRetry THEN 2 ELSE 1
            /\ settled.request.unauthorized
                  = IF settled.request.isRetry THEN 1 ELSE 0)
    /\ [][\A t \in Tasks :
            RequestFetch(t, NetworkFailure, DataPayload) =>
               /\ task'[t] = Idle
               /\ settled'.task = t
               /\ settled'.op = "request"
               /\ settled'.status = NetworkFailure
               /\ settled'.request = task[t].request
               /\ settled'.sent = sentBy(task[t])
               /\ settled'.paths = [i \in 1..Len(task[t].calls) |->
                                       task[t].calls[i].path]
               /\ refreshPromise' = refreshPromise]_vars

C21_Witness ==
    /\ settled.op = "request"
    /\ settled.status = NetworkFailure
    /\ settled.result = NetworkError
    /\ Len(settled.sent) = 1
    /\ settled.request.unauthorized = 0
    /\ settled.hooked = 0

\* C24: signUp issues the register call first and the token call only after
\* it, with the same credentials; when the register call fails no token
\* call is issued and nothing is changed; and a signUp changes no Session
\* field before its signIn has succeeded.
\* The signIn inside signUp assigns both tokens (lines 145-146) when the
\* token call is answered, before the current-user call.
C24_SignUpRegistersThenSignsIn ==
    /\ \A t \in Tasks : task[t].op = "signUp" =>
          /\ task[t].calls[1].path = RegisterPath
          /\ task[t].calls[1].body = task[t].credentials
          /\ Len(task[t].calls) >= 2 =>
                /\ task[t].calls[2].path = TokensPath
                /\ task[t].calls[2].body = task[t].credentials
          /\ ~task[t].wrote
    /\ settled.op = "signUp" =>
          /\ settled.paths[1] = RegisterPath
          /\ Len(settled.paths) >= 2 => settled.paths[2] = TokensPath
          /\ (settled.paths = <<RegisterPath>>) =>
                (~settled.wrote /\ settled.result.kind # "resolved")
          /\ settled.result.kind # "resolved" => ~settled.wrote

\* C25: me() called while no access token is held returns null in the step
\* that calls it and issues no network call; a me() whose current-user call
\* succeeds sets the user record to the response, leaves the access token
\* and the refresh token as they are, writes the record and calls every
\* listener once with the new user.
C25_MeUpdatesUserOnly ==
    [][\A t \in Tasks :
         /\ (/\ task[t].pc = "idle"
             /\ falsy(accessToken)
             /\ task'[t].op = "me" \/ (settled'.task = t /\ settled'.op = "me"))
            => /\ task'[t] = Idle
               /\ settled'.result = Resolved(Null)
               /\ settled'.paths = <<>>
               /\ notified' = <<>>
               /\ UNCHANGED <<currentUser, accessToken, refreshToken, storage>>
         /\ (/\ task[t].pc = "me_fetch"
             /\ settled'.task = t
             /\ responseOk(settled'.status))
            => /\ settled'.result = Resolved(settled'.payload)
               /\ currentUser' = settled'.payload
               /\ currentUser' \in Users
               /\ accessToken' = accessToken
               /\ refreshToken' = refreshToken
               /\ storageMode = "ok" =>
                     storage' = JSONstringify(currentUser', accessToken,
                                              refreshToken)
               /\ notified' = [i \in 1..Len(listeners) |->
                                  invoked(listeners[i], currentUser')]
               /\ listeners' = listeners]_vars

C25_Witness ==
    /\ settled.op = "me"
    /\ responseOk(settled.status)
    /\ settled.result = Resolved("u2")
    /\ currentUser = "u2"
    /\ accessToken = "t1"
    /\ refreshToken = "r1"
    /\ storage = JSONstringify("u2", "t1", "r1")
    /\ notified = <<invoked("l1", "u2")>>

\* C28: when signOut() has run while a signIn was suspended at one of its
\* two calls and that signIn then resolves, the Session it leaves is its
\* own, whole: the user of its current-user call with the access token and
\* the refresh token of its token call, isAuthenticated true and the
\* durable record written; nothing of the signOut is mixed in.
C28_SignInOutlastsSignOut ==
    (/\ settled.op = "signIn"
     /\ settled.signedOut
     /\ settled.result.kind = "resolved")
        => /\ settled.result = Resolved(settled.payload)
           /\ settled.payload \in Users
           /\ settled.tokenResponse \in AuthTokenResponse
           /\ currentUser = settled.payload
           /\ accessToken = settled.tokenResponse.accessToken
           /\ refreshToken = settled.tokenResponse.refreshToken
           /\ isAuthenticated
           /\ storageMode = "ok" =>
                 storage = JSONstringify(settled.payload,
                                         settled.tokenResponse.accessToken,
                                         settled.tokenResponse.refreshToken)

C28_Witness ==
    /\ settled.op = "signIn"
    /\ settled.signedOut
    /\ settled.result.kind = "resolved"
    /\ isAuthenticated
    /\ refreshToken = settled.tokenResponse.refreshToken
    /\ storage = JSONstringify(currentUser, accessToken, refreshToken)
    /\ \A t \in Tasks : task[t].pc = "idle"

\* C26: where localStorage works and setToken() is always asked to persist,
\* in every state in which no operation of the Session Store is in flight
\* the durable record holds exactly the user, the access token and the
\* refresh token of the Session, and there is no record when the Session is
\* empty: after signOut, after a refresh that failed, after a 401 on me().
\* A signIn (or the signIn of a signUp) whose token call succeeds and whose
\* current-user call fails leaves the tokens of lines 145-146 in the
\* Session and the record as it was.
C26_RecordMirrorsSession ==
    storageMode = "ok" =>
        /\ (\A t \in Tasks : task[t].pc = "idle") =>
              storage = IF sessionCleared THEN NoItem
                        ELSE JSONstringify(currentUser, accessToken, refreshToken)
        /\ (\/ settled.op = "signOut"
            \/ settled.op = "doRefresh" /\ settled.result = Resolved("false")
            \/ settled.op = "me" /\ settled.status = 401)
              => storage = NoItem

\* C27: a request() that is not answered 401 changes nothing of the
\* Session: neither the step that issues its call nor the step in which its
\* call is answered (2xx, another error status, network failure) changes
\* the user, the tokens, the durable record or the pending-refresh marker,
\* and neither calls a listener.
C27_ExecutorLeavesSession ==
    /\ []((settled.op = "request" /\ settled.request.unauthorized = 0)
            => (~settled.wrote /\ Len(settled.paths) = 1))
    /\ [][\A t \in Tasks :
            (\/ task[t].pc = "idle" /\ task'[t].op = "request"
             \/ \E s \in DataStatuses \ {401} :
                   RequestFetch(t, s, DataPayload))
            => /\ UNCHANGED <<currentUser, accessToken, refreshToken, storage,
                              refreshPromise, listeners>>
               /\ notified' = <<>>
               /\ task[t].pc = "request_fetch" => task'[t] = Idle]_vars

C27_Witness ==
    /\ settled.op = "request"
    /\ settled.request.unauthorized = 0
    /\ settled.result = Resolved(DataPayload)
    /\ ~settled.wrote
    /\ refreshPromise.val = "pending"
    /\ isAuthenticated
    /\ Len(listeners) >= 1
    /\ notified = <<>>

\* the response body read as the claim reads it: its message and error_code
\* where it is an object that has them
bodyMessage(body) == IF body.kind = "object" THEN body.message ELSE Undefined
bodyCode(body) == IF body.kind = "object" THEN body.error_code ELSE Undefined

\* C22: for every response that is not ok and is not retried, whatever its
\* body, request() raises a MitraApiError whose status is the HTTP status,
\* whose message is the message of the body or else "Request failed with
\* status N", whose code is the error_code of the body if it has one, and
\* whose details is the parsed body, or an empty object when the body does
\* not parse.
\* For a body that is the JSON value null, reading errorBody.message
\* (line 439) throws a TypeError: no MitraApiError is built.
C22_ApiErrorFromAnyBody ==
    exchange.kind = "failed" =>
        /\ exchange.raised.name = "MitraApiError"
        /\ exchange.raised.status = exchange.status
        /\ exchange.raised.message =
              IF bodyMessage(exchange.body) # Undefined
              THEN bodyMessage(exchange.body)
              ELSE "Request failed with status " \o ToString(exchange.status)
        /\ exchange.raised.code = bodyCode(exchange.body)
        /\ exchange.raised.details =
              IF exchange.body.kind = "unparseable"
              THEN ObjectBody(Undefined, Undefined) ELSE exchange.body

\* the value below the computed Authorization: the caller's header, else
\* the default header of the client, else the fixed Content-Type
belowAuthorization(n) ==
    IF exchange.perCall[n] # Absent THEN exchange.perCall[n]
    ELSE IF defaultHeaders(exchange.client)[n] # Absent
         THEN defaultHeaders(exchange.client)[n]
    ELSE IF n = "Content-Type" THEN "application/json"
    ELSE Absent

\* C23 as stated: default headers yield to per-call headers, Content-Type
\* is application/json unless the per-call headers set it, and the
\* Authorization header is "Bearer <token>" when the token-getter returns a
\* token and is not in the request when it returns none.
C23_HeaderPrecedence ==
    exchange.kind = "prepared" =>
        /\ \A n \in HeaderNames \ {"Authorization"} :
              exchange.headers[n] = belowAuthorization(n)
        /\ exchange.headers["Content-Type"] =
              IF exchange.perCall["Content-Type"] # Absent
              THEN exchange.perCall["Content-Type"] ELSE "application/json"
        /\ exchange.headers["Authorization"] =
              IF exchange.token \in AccessTokens
              THEN "Bearer " \o exchange.token ELSE Absent

\* C23, amended: as stated, but when the token-getter returns no token no
\* Authorization header is computed, and the request carries the
\* Authorization header of the per-call headers if the caller gave one.
C23_ComputedAuthorizationOnTop ==
    exchange.kind = "prepared" =>
        /\ \A n \in HeaderNames \ {"Authorization"} :
              exchange.headers[n] = belowAuthorization(n)
        /\ exchange.headers["Content-Type"] =
              IF exchange.perCall["Content-Type"] # Absent
              THEN exchange.perCall["Content-Type"] ELSE "application/json"
        /\ exchange.headers["Authorization"] =
              IF exchange.token \in AccessTokens
              THEN "Bearer " \o exchange.token
              ELSE exchange.perCall["Authorization"]

C23_Witness ==
    /\ exchange.kind = "prepared"
    /\ exchange.client = "httpClient"
    /\ exchange.token = "t1"
    /\ exchange.perCall = [NoHeaders EXCEPT !["Authorization"] = "Basic x",
                                            !["X-App-Id"] = "other"]
    /\ exchange.headers["Authorization"] = "Bearer t1"
    /\ exchange.headers["X-App-Id"] = "other"
    /\ exchange.headers["Content-Type"] = "application/json"

\* reading a query string back: the position of the first c in a text
\* (0: none), the pieces of a text between separators, and the text an
\* encoded text stands for
firstIndex(text, c) ==
    IF \E i \in 1..Len(text) : text[i] = c
    THEN CHOOSE i \in 1..Len(text) :
            text[i] = c /\ \A j \in 1..(i - 1) : text[j] # c
    ELSE 0

RECURSIVE splitOn(_, _)
splitOn(text, sep) ==
    IF firstIndex(text, sep) = 0 THEN <<text>>
    ELSE <<SubSeq(text, 1, firstIndex(text, sep) - 1)>>
            \o splitOn(SubSeq(text, firstIndex(text, sep) + 1, Len(text)), sep)

RECURSIVE urldecode(_)
urldecode(text) ==
    IF text = <<>> THEN <<>>
    ELSE IF Head(text) = "+" THEN <<" ">> \o urldecode(Tail(text))
    ELSE IF /\ Head(text) = "%"
            /\ Len(text) >= 3
            /\ \E c \in DOMAIN PercentCode : PercentCode[c] = SubSeq(text, 1, 3)
         THEN <<CHOOSE c \in DOMAIN PercentCode :
                    PercentCode[c] = SubSeq(text, 1, 3)>>
                 \o urldecode(SubSeq(text, 4, Len(text)))
    ELSE <<Head(text)>> \o urldecode(Tail(text))

\* the key and value of one key=value piece
pairOf(piece) ==
    IF firstIndex(piece, "=") = 0
    THEN [key |-> urldecode(piece), value |-> <<>>]
    ELSE [key |-> urldecode(SubSeq(piece, 1, firstIndex(piece, "=") - 1)),
          value |-> urldecode(SubSeq(piece, firstIndex(piece, "=") + 1,
                                     Len(piece)))]

parsedQuery(query) ==
    [i \in 1..Len(splitOn(query, "&")) |-> pairOf(splitOn(query, "&")[i])]

\* the entries of the params object whose value is not undefined
defined(entries) == SelectSeq(entries, LAMBDA e : e.value.type # "undefined")

\* C30: the address request() calls is base address and path, followed,
\* when some entry of params has a value that is not undefined, by "?" and
\* a query string that reads back as exactly those entries, in order, each
\* with its key and String(value); an entry whose value is undefined adds
\* no key, and without an entry left there is no "?".
C30_QueryParameters ==
    exchange.kind = "prepared" =>
        LET prefix == BaseUrl \o PathText
            kept == defined(exchange.params.entries)
            query == SubSeq(exchange.url, Len(prefix) + 2, Len(exchange.url))
        IN /\ SubSeq(exchange.url, 1, Len(prefix)) = prefix
           /\ kept = <<>> => exchange.url = prefix
           /\ kept # <<>> =>
                 /\ exchange.url[Len(prefix) + 1] = "?"
                 /\ \A i \in 1..Len(query) : query[i] \notin {" ", "?", ","}
                 /\ parsedQuery(query) =
                       [i \in 1..Len(kept) |->
                          [key |-> kept[i].key, value |-> String(kept[i].value)]]

C30_Witness ==
    /\ exchange.kind = "prepared"
    /\ exchange.params =
          ParamsObject(<<[key |-> <<"l", "i", "m", "i", "t">>,
                          value |-> NumberValue(10)],
                         [key |-> <<"q", "?">>, value |-> UndefinedValue]>>)
    /\ exchange.url = BaseUrl \o PathText
                         \o <<"?", "l", "i", "m", "i", "t", "=", "1", "0">>

\* C29 as stated: the durable record is written, read and removed under
\* the key session_<appId>.
C29_RecordUnderSessionKey ==
    storageMode = "ok" =>
        /\ persisted =>
              localStorage["session_" \o AppId]
                 = JSONstringify(currentUser, accessToken, refreshToken)
        /\ (settled.op = "constructor" /\ ~sessionCleared) =>
              /\ localStorage["session_" \o AppId].kind = "json"
              /\ currentUser = localStorage["session_" \o AppId].user
              /\ accessToken = localStorage["session_" \o AppId].token
        /\ settled.op = "signOut" =>
              \A k \in StorageKeys : localStorage[k] = NoItem

\* C29, amended: the durable record is written, read and removed under
\* the key mitra_auth_<appId>, and under no other key.
C29_RecordUnderMitraAuthKey ==
    storageMode = "ok" =>
        /\ persisted =>
              localStorage["mitra_auth_" \o AppId]
                 = JSONstringify(currentUser, accessToken, refreshToken)
        /\ (settled.op = "constructor" /\ ~sessionCleared) =>
              /\ localStorage["mitra_auth_" \o AppId].kind = "json"
              /\ currentUser = localStorage["mitra_auth_" \o AppId].user
              /\ accessToken = localStorage["mitra_auth_" \o AppId].token
        /\ settled.op = "signOut" =>
              \A k \in StorageKeys : localStorage[k] = NoItem
        /\ \A k \in StorageKeys \ {"mitra_auth_" \o AppId} :
              localStorage[k] = NoItem

C29_Witness ==
    /\ storageMode = "ok"
    /\ settled.op = "constructor"
    /\ localStorage["mitra_auth_app1"] = JSONstringify("u2", "t2", "r2")
    /\ localStorage["session_app1"] = NoItem
    /\ currentUser = "u2"
    /\ accessToken = "t2"

\* C31: a me() or refreshSession() that was suspended at a network call
\* when signOut() ran does not bring the Session back: the step in which
\* its call is answered, taken while the Session is still empty and the
\* durable record absent, leaves them so.
\* me() assigns the user it receives (line 246) and doRefresh() the tokens
\* and the user it receives (lines 346-351) whatever has happened since the
\* call was issued.
C31_SignedOutStaysOut ==
    [][\A t \in Tasks :
         (/\ task[t].op \in {"me", "refreshSession"}
          /\ task[t].pc \in {"me_fetch", "refresh_token", "refresh_me"}
          /\ task[t].signedOut
          /\ task'[t] # task[t]
          /\ sessionCleared
          /\ storage = NoItem)
         => /\ currentUser' = Null
            /\ accessToken' = Null
            /\ refreshToken' = Null
            /\ storage' = NoItem]_vars

\* the Authorization a call was sent with, as a token (null: none)
sentWith(call) ==
    IF call.authorization = Undefined THEN Null ELSE call.authorization

\* C32: the committed user record belongs to the access token held: when
\* a step commits the user a current-user call answered (in me(), signIn or
\* a refresh) and leaves no operation in flight, with user and access token
\* both present, the access token then held is the one that call was sent
\* with.
\* me() assigns the user it receives (line 246) beside whatever access
\* token a signIn or a refresh has committed since the call was sent.
C32_UserBelongsToToken ==
    [][\A t \in Tasks :
         (/\ task[t].pc \in {"me_fetch", "signIn_me", "refresh_me"}
          /\ task[t].op \in {"me", "signIn", "refreshSession"}
          /\ task'[t] # task[t]
          /\ currentUser' # currentUser
          /\ currentUser' # Null
          /\ accessToken' # Null
          /\ \A u \in Tasks \ {t} : task'[u].pc = "idle"
          /\ task'[t].pc \in {"idle", "refresh_await"})
         => accessToken' = sentWith(task[t].calls[Len(task[t].calls)])]_vars

\* C33: the request re-issued after a refresh that succeeded carries the
\* access token held when the retry is issued. request() calls itself at
\* line 433 and reads the token getter again at line 418, so the header of
\* the second call is computed from the Session as it is at that step and
\* not copied from the first call.
C33_RetryCarriesHeldToken ==
    [][\A t \in Tasks :
         (/\ task[t].pc = "request_unauthorized"
          /\ task'[t].pc = "request_fetch")
         => /\ Len(task'[t].calls) = Len(task[t].calls) + 1
            /\ sentWith(task'[t].calls[Len(task'[t].calls)]) = accessToken']_vars

\* a retry is in flight with the refreshed token, which is not the token of
\* the first attempt
C33_Witness ==
    \E t \in Tasks :
         /\ task[t].pc = "request_fetch"
         /\ task[t].request.isRetry
         /\ Len(task[t].calls) = 2
         /\ accessToken # Null
         /\ sentWith(task[t].calls[2]) = accessToken
         /\ sentWith(task[t].calls[1]) # accessToken

\* the response step of one of the AuthModule's own calls in task t, answered 401
storeCallUnauthorized(t) ==
    \/ \E tr \in AuthTokenResponse : SignInToken(t, 401, tr)
    \/ \E u \in Users : SignInMe(t, 401, u)
    \/ \E u \in Users : MeFetch(t, 401, u)
    \/ \E tr \in AuthTokenResponse : DoRefreshToken(t, 401, tr)
    \/ \E u \in Users : DoRefreshMe(t, 401, u)

\* the calls of frame f to the endpoint of its last call
sameEndpoint(f) ==
    {i \in 1..Len(f.calls) : f.calls[i].path = f.calls[Len(f.calls)].path
                              /\ f.calls[i].client = f.calls[Len(f.calls)].client}

\* C34: the requests the AuthModule makes through its own two clients never
\* go into the refresh-and-retry path. publicClient and authedClient are
\* built without onUnauthorized (lines 101-102), so a 401 on the token call
\* of signIn, on the refresh call or on a current-user call ends that step
\* with the one call it made: no call is issued in the step that receives
\* the 401, no refresh is started, signIn rejects with the 401, me()
\* resolves null and the doRefresh() promise resolves false.
C34_StoreCallsNotRetried ==
    [][\A t \in Tasks :
         storeCallUnauthorized(t)
         => /\ \A u \in Tasks : \/ task'[u].pc = "idle"
                                 \/ task'[u].calls = task[u].calls
            /\ task'[t].pc \in {"idle", "refresh_await"}
            /\ Cardinality(sameEndpoint(task[t])) = 1
            /\ refreshPromise'.owner = refreshPromise.owner
            /\ refreshPromise'.val # "pending" \/ refreshPromise' = refreshPromise
            /\ settled'.status = 401
            /\ settled'.result =
                  CASE settled'.op \in {"signIn", "signUp"} -> MitraApiError(401)
                    [] settled'.op = "me" -> Resolved(Null)
                    [] OTHER -> Resolved("false")]_vars

\* the refresh a request() started on its 401 was itself answered 401: the
\* promise resolved false after the one refresh call
C34_Witness ==
    /\ settled.op = "doRefresh"
    /\ settled.status = 401
    /\ settled.request.unauthorized = 1
    /\ Len(settled.paths) = 2
    /\ settled.result = Resolved("false")
    /\ refreshPromise.val = "false"

\* C35: every request() call settles, given that every fetch() and every
\* invocation of the onUnauthorized callback settles (ExecutorFairness),
\* also when the requests of several tasks are answered 401 and share one
\* refresh; and no request issues more than its first attempt and the one
\* retry of line 433, whatever the sequence of 401 responses.
C35_RequestSettles ==
    /\ \A t \in Tasks : (task[t].op = "request") ~> (task[t].pc = "idle")
    /\ \A t \in Tasks : [](Len(sentBy(task[t])) <= 2)

\* a request() that was answered 401 while another task's refresh was
\* pending has settled after its retry, without a refresh call of its own
C35_Witness ==
    /\ settled.op = "request"
    /\ settled.request.unauthorized = 1
    /\ settled.request.refreshed = "true"
    /\ Len(settled.paths) = 2
    /\ Len(settled.sent) = 2
    /\ settled.status = 401

\* the invocations of listener l among these, by position
invocationsOf(l, calls) == {i \in 1..Len(calls) : calls[i].listener = l}

\* the largest member of a non-empty set of numbers
last(S) == CHOOSE i \in S : \A j \in S : j <= i

\* C36: no subscribed listener is stale. At every step, each listener
\* subscribed after the step either was invoked in the step, last with the
\* user record as it is after the step, or was subscribed before the step,
\* which left the user record as it was. A listener is first invoked when
\* it subscribes (line 332), so at every state the argument of the latest
\* invocation of every subscribed listener is the current user record.
C36_ListenersNeverStale ==
    [][\A i \in 1..Len(listeners') :
         LET l == listeners'[i] IN
         IF invocationsOf(l, notified') # {}
         THEN notified'[last(invocationsOf(l, notified'))].user = currentUser'
         ELSE /\ l \in registered
              /\ currentUser' = currentUser]_vars

\* me() has stored a user and both subscribed listeners were handed it
C36_Witness ==
    /\ settled.op = "me"
    /\ settled.wrote
    /\ currentUser # Null
    /\ Len(listeners) = 2
    /\ Len(notified) = 2
    /\ \A i \in 1..2 : notified[i] = invoked(listeners[i], currentUser)

\* C37: isAuthenticated is true only when a user record and an access token
\* are held: a new AuthModule constructed over a record that parses as
\* JSON but has no user field or no token field is not authenticated.
\* The code assigns the destructured fields as they come (lines 408-410),
\* undefined for a missing one, and isAuthenticated compares with null
\* only (line 118).
C37_AuthenticatedMeansHeld ==
    [][(/\ settled'.op = "constructor"
        /\ storageMode = "ok"
        /\ storage.kind = "json"
        /\ (storage.user = Undefined \/ storage.token = Undefined))
          => ~isAuthenticated']_vars

====
